---- MODULE Spec2Model ----
(***************************************************************************)
(* Model of the WhatsApp messaging adapter (class WhatsAppService of       *)
(* lib/whatsapp-service.ts): its connection flags, the lifecycle event     *)
(* handlers registered on the whatsapp-web.js client, the asynchronous     *)
(* initialize() routine with its two polling loops and its                 *)
(* destroy-and-recreate path, the start-up and reconnect timers, and the   *)
(* connectivity guard of the message operations.                           *)
(***************************************************************************)
EXTENDS Integers, Sequences, FiniteSets, TLC

\* ---------------------------------------------------------------- bounds
MaxCalls == 2        \* initialize() invocations in progress at once (SpecConcurrent)
MaxClients == 2      \* client objects constructed (constructor + recreations)
MaxTimers == 2       \* reconnect timers pending at once
MaxChats == 2        \* chats one listing iterates over
MaxMsgs == 2         \* messages one chat.fetchMessages() resolves with
MaxTs == 2           \* distinct message timestamps

\* ------------------------------------------------------ program constants
PollBudget == 20
RecreatePollBudget == 10

NoClient == 0        \* this.client === null
NoQr == 0            \* this.qrCode === null

Slots == 1..MaxCalls

\* -------------------------------------------------------- error messages
\* An error message is the sequence of the fragments it is made of;
\* String.prototype.includes(s) is membership of the fragment s.  The empty
\* sequence is an error without a message (error.message is undefined).
NoMessage == << >>
MsgClientNull == <<"WhatsApp client", "not initialized">>
MsgNotConnected == <<"WhatsApp", "not connected", ". Please scan QR code first.">>
MsgSessionClosed == <<"Protocol error: ", "Session", " closed.">>
MsgTargetClosed == <<"Protocol error: ", "Target closed">>
MsgCtxDestroyed == <<"Execution context was ", "destroyed">>
MsgLowerSession == <<"session", " expired">>
MsgLaunchFailed == <<"Failed to launch the browser process">>
MsgContactMethods == <<"window.Store.", "ContactMethods", ".", "getIsMyContact",
                       " is not a function">>

Includes(msg, s) == \E k \in DOMAIN msg : msg[k] = s

\* errors the underlying client's initialize() can reject with
ClientErrors ==
  {MsgSessionClosed, MsgTargetClosed, MsgCtxDestroyed, MsgLowerSession,
   MsgLaunchFailed, NoMessage}

\* errors the underlying client's chat calls can reject with
OpErrors == {MsgSessionClosed, MsgTargetClosed, MsgContactMethods, NoMessage}

DisconnectReasons == {"LOGOUT", "NAVIGATION"}

OpKinds == {"getRecentMessages", "getUnreadMessages", "getMessagesFromContact",
            "sendMessage", "replyToMessage"}

VARIABLES
  client,           \* this.client: NoClient or the number of the client object
  isReady,          \* this.isReady
  isAuthenticated,  \* this.isAuthenticated
  qrCode,           \* this.qrCode: NoQr or the payload (number of the client that emitted it)
  pupPage,          \* (this.client as any).pupPage is set
  info,             \* (this.client as any).info is set
  initCalls,        \* times client.initialize() was invoked on the current client
                    \* object: 0, 1, or 2 for twice or more
  calls,            \* the initialize() invocations in progress, one record per slot
  autoPending,      \* the constructor's 2 s auto-initialize timer has not fired yet
  reconnectTimers,  \* pending 3 s reconnect timers
  sessionUp,        \* an authenticated/ready event fired, no disconnected/auth_failure since
  quietLogout,      \* disconnected(LOGOUT) was delivered, no event or connect request since
  unmatched,        \* reconnect timers scheduled minus disconnected events with a reason other than LOGOUT
  op,               \* the message operation in progress or just rejected by its guard
  listing,          \* a message listing in progress (getUnreadMessages and its siblings)
  route,            \* a request being handled by an API route (send, connect)
  chat,             \* a handleWhatsAppCommand invocation being executed
  parse,            \* an utterance given to parseCommand, and its result
  service,          \* the adapters constructed and the one getWhatsAppService() holds
  ai                \* a getAIResponse invocation: its provider chain and its outcome

vars == <<client, isReady, isAuthenticated, qrCode, pupPage, info, initCalls,
          calls, autoPending, reconnectTimers, sessionUp, quietLogout,
          unmatched, op, listing, route, chat, parse, service, ai>>

flagVars == <<isReady, isAuthenticated, qrCode>>
clientVars == <<client, pupPage, info, initCalls>>
timerVars == <<autoPending, reconnectTimers>>
histVars == <<sessionUp, quietLogout, unmatched>>
taskVars == <<listing, route, chat, parse, service, ai>>

IdleCall ==
  [pc |-> "idle", i |-> 0, on |-> NoClient, recr |-> 0, ready |-> FALSE,
   qr |-> NoQr, timedOut |-> FALSE, err |-> NoMessage]

IdleOp == [kind |-> "none", st |-> "idle", conn |-> FALSE, called |-> FALSE,
           err |-> NoMessage]

\* no listing, request, command or utterance is being processed
NoTask == [pc |-> "idle"]

\* the request handlers that call getWhatsAppService()
Handlers == {"chat", "connect", "status", "qr", "messages", "send"}

NoService == 0       \* no adapter: the variable is undefined or null

\* The accessor's state: the NODE_ENV of the process, global.__whatsappService,
\* the module-level whatsappService, how many times the module was evaluated,
\* how many adapters were constructed, and the adapter each handler was given.
ServiceState(env, global, module, loads, built, given) ==
  [env |-> env, global |-> global, module |-> module, loads |-> loads,
   built |-> built, given |-> given]

\* a production process whose first getWhatsAppService() call constructed the
\* adapter
OneService ==
  ServiceState("production", NoService, 1, 1, 1, [h \in Handlers |-> NoService])

\* no getAIResponse invocation: nothing tried, no request issued, no answer
IdleAi ==
  [pc |-> "idle", groqKey |-> FALSE, geminiKey |-> FALSE, errors |-> <<>>,
   requests |-> 0, waitTime |-> 0, waited |-> 0, source |-> "none"]

\* constructor: new Client, setupEventHandlers, autoInitialize (timer armed)
Init ==
  /\ client = 1
  /\ isReady = FALSE
  /\ isAuthenticated = FALSE
  /\ qrCode = NoQr
  /\ pupPage = FALSE
  /\ info = FALSE
  /\ initCalls = 0
  /\ calls = [p \in Slots |-> IdleCall]
  /\ autoPending = TRUE
  /\ reconnectTimers = 0
  /\ sessionUp = FALSE
  /\ quietLogout = FALSE
  /\ unmatched = 0
  /\ op = IdleOp
  /\ service = OneService
  /\ ai = IdleAi
  /\ listing = NoTask
  /\ route = NoTask
  /\ chat = NoTask
  /\ parse = NoTask

\* ------------------------------------------------------------- isConnected
IsClientInitialized == client # NoClient /\ (pupPage \/ info)

\* an isConnected() whose probe sets the flag but still answers false
IsConnected_ProbeAnswersFalse ==
  IF client = NoClient THEN FALSE
  ELSE IF isReady THEN TRUE
  ELSE isAuthenticated

\* the value isConnected() returns
IsConnected ==
  IF client = NoClient THEN FALSE
  ELSE IF isReady THEN TRUE
  ELSE IF isAuthenticated THEN TRUE
  ELSE IsClientInitialized /\ info

\* this.isAuthenticated after a call of isConnected()
AuthAfterIsConnected ==
  IF client # NoClient /\ ~isReady /\ ~isAuthenticated
       /\ IsClientInitialized /\ info
  THEN TRUE ELSE isAuthenticated

\* ------------------------------------------------- lifecycle event handlers
\* The current client emits events once its page exists.
CanEmit == client # NoClient /\ pupPage

\* client.on('qr', ...)
OnQr ==
  /\ CanEmit
  /\ qrCode' = client
  /\ quietLogout' = FALSE
  /\ UNCHANGED <<isReady, isAuthenticated, clientVars, calls, timerVars,
                 sessionUp, unmatched, op>>
  /\ UNCHANGED taskVars

\* client.on('ready', ...); the library sets client.info before emitting it
OnReady ==
  /\ CanEmit
  /\ isReady' = TRUE
  /\ isAuthenticated' = TRUE
  /\ qrCode' = NoQr
  /\ info' = TRUE
  /\ sessionUp' = TRUE
  /\ quietLogout' = FALSE
  /\ UNCHANGED <<client, pupPage, initCalls, calls, timerVars, unmatched, op>>
  /\ UNCHANGED taskVars

\* client.on('authenticated', ...)
OnAuthenticated ==
  /\ CanEmit
  /\ isAuthenticated' = TRUE
  /\ sessionUp' = TRUE
  /\ quietLogout' = FALSE
  /\ UNCHANGED <<isReady, qrCode, clientVars, calls, timerVars, unmatched, op>>
  /\ UNCHANGED taskVars

\* an auth_failure handler that forgets the ready flag
OnAuthFailure_KeepsReady ==
  /\ CanEmit
  /\ isAuthenticated' = FALSE
  /\ sessionUp' = FALSE
  /\ quietLogout' = FALSE
  /\ UNCHANGED <<isReady, qrCode, clientVars, calls, timerVars, unmatched, op>>
  /\ UNCHANGED taskVars

\* client.on('auth_failure', ...)
OnAuthFailure ==
  /\ CanEmit
  /\ isReady' = FALSE
  /\ isAuthenticated' = FALSE
  /\ sessionUp' = FALSE
  /\ quietLogout' = FALSE
  /\ UNCHANGED <<qrCode, clientVars, calls, timerVars, unmatched, op>>
  /\ UNCHANGED taskVars

\* a handler that arms the reconnect timer whatever the reason
SchedulesReconnect_AlsoOnLogout(reason) == reason \in DisconnectReasons

\* whether the disconnected handler arms the 3 s reconnect timer
SchedulesReconnect(reason) == reason # "LOGOUT"

\* client.on('disconnected', ...); the client object may keep or lose info
OnDisconnected(reason, keepInfo) ==
  /\ CanEmit
  /\ isReady' = FALSE
  /\ isAuthenticated' = FALSE
  /\ qrCode' = NoQr
  /\ info' = (info /\ keepInfo)
  /\ IF SchedulesReconnect(reason)
     THEN /\ reconnectTimers < MaxTimers
          /\ reconnectTimers' = reconnectTimers + 1
     ELSE UNCHANGED reconnectTimers
  /\ unmatched' = unmatched + (IF SchedulesReconnect(reason) THEN 1 ELSE 0)
                             - (IF reason # "LOGOUT" THEN 1 ELSE 0)
  /\ sessionUp' = FALSE
  /\ quietLogout' = (reason = "LOGOUT")
  /\ UNCHANGED <<client, pupPage, initCalls, calls, autoPending, op>>
  /\ UNCHANGED taskVars

\* --------------------------------------------------------------- initialize
\* a finished invocation: its result, and whether the return statement after
\* the loop produced it
Returned(c, rdy, q, late) ==
  [IdleCall EXCEPT !.pc = "returned", !.recr = c.recr, !.ready = rdy, !.qr = q,
                   !.timedOut = late]
Threw(c, msg) == [IdleCall EXCEPT !.pc = "threw", !.recr = c.recr, !.err = msg]

\* initialize() from its entry to its first await (or immediate return)
BeginInitialize(p) ==
  /\ calls[p].pc = "idle"
  /\ \A q \in Slots : q < p => calls[q].pc # "idle"
  /\ IF client = NoClient
     THEN /\ calls' = [calls EXCEPT ![p] = Threw(@, MsgClientNull)]
          /\ UNCHANGED initCalls
     ELSE IF isReady
     THEN /\ calls' = [calls EXCEPT ![p] = Returned(@, TRUE, NoQr, FALSE)]
          /\ UNCHANGED initCalls
     ELSE IF ~IsClientInitialized
     THEN /\ calls' = [calls EXCEPT ![p] = [@ EXCEPT !.pc = "awaitInit", !.on = client]]
          /\ initCalls' = IF initCalls = 0 THEN 1 ELSE 2
     ELSE IF qrCode # NoQr
     THEN /\ calls' = [calls EXCEPT ![p] = Returned(@, FALSE, qrCode, FALSE)]
          /\ UNCHANGED initCalls
     ELSE /\ calls' = [calls EXCEPT ![p] = [@ EXCEPT !.pc = "poll"]]
          /\ UNCHANGED initCalls

\* the caller takes the result (or the error) of a finished invocation
Settle(p) ==
  /\ calls[p].pc \in {"returned", "threw"}
  /\ calls' = [calls EXCEPT ![p] = IdleCall]
  /\ UNCHANGED <<flagVars, clientVars, timerVars, histVars, op>>
  /\ UNCHANGED taskVars

\* the browser page of the client being initialized comes into existence
PageLaunched ==
  /\ \E p \in Slots : calls[p].pc \in {"awaitInit", "awaitReinit"} /\ calls[p].on = client
  /\ ~pupPage
  /\ pupPage' = TRUE
  /\ UNCHANGED <<client, info, initCalls, flagVars, calls, timerVars, histVars, op>>
  /\ UNCHANGED taskVars

\* await this.client.initialize() resolves: reset the QR code, enter the loop
InitResolves(p) ==
  /\ calls[p].pc = "awaitInit"
  /\ calls[p].on = client => pupPage
  /\ qrCode' = NoQr
  /\ calls' = [calls EXCEPT ![p] = [@ EXCEPT !.pc = "poll", !.on = NoClient]]
  /\ UNCHANGED <<isReady, isAuthenticated, clientVars, timerVars, histVars, op>>
  /\ UNCHANGED taskVars

\* a corruption test that ignores case
IsCorruption_IgnoreCase(msg) ==
  \/ Includes(msg, "destroyed")
  \/ Includes(msg, "Session") \/ Includes(msg, "session")
  \/ Includes(msg, "Target closed")

\* error.message?.includes('destroyed') || ...('Session') || ...('Target closed')
IsCorruption(msg) ==
  Includes(msg, "destroyed") \/ Includes(msg, "Session") \/ Includes(msg, "Target closed")

\* await this.client.initialize() rejects: the catch block up to its first await
InitRejects(p, msg) ==
  /\ calls[p].pc = "awaitInit"
  /\ msg \in ClientErrors
  /\ IF IsCorruption(msg)
     THEN /\ client < MaxClients
          /\ calls' = [calls EXCEPT ![p] =
                         [@ EXCEPT !.pc = "destroying", !.on = NoClient, !.err = msg]]
     ELSE calls' = [calls EXCEPT ![p] = Threw(@, msg)]
  /\ UNCHANGED <<flagVars, clientVars, timerVars, histVars, op>>
  /\ UNCHANGED taskVars

\* await this.client.destroy() settles (errors ignored): new Client,
\* setupEventHandlers, and the second client.initialize() is invoked
Recreate(p) ==
  /\ calls[p].pc = "destroying"
  /\ client # NoClient /\ client < MaxClients
  /\ client' = client + 1
  /\ pupPage' = FALSE
  /\ info' = FALSE
  /\ initCalls' = 1
  /\ calls' = [calls EXCEPT ![p] =
                 [@ EXCEPT !.pc = "awaitReinit", !.on = client + 1, !.recr = @ + 1]]
  /\ UNCHANGED <<flagVars, timerVars, histVars, op>>
  /\ UNCHANGED taskVars

ReinitResolves(p) ==
  /\ calls[p].pc = "awaitReinit"
  /\ calls[p].on = client => pupPage
  /\ calls' = [calls EXCEPT ![p] =
                 [@ EXCEPT !.pc = "poll2", !.on = NoClient, !.err = NoMessage]]
  /\ UNCHANGED <<flagVars, clientVars, timerVars, histVars, op>>
  /\ UNCHANGED taskVars

\* catch (recreateError) { throw recreateError }
ReinitRejects(p, msg) ==
  /\ calls[p].pc = "awaitReinit"
  /\ msg \in ClientErrors
  /\ calls' = [calls EXCEPT ![p] = Threw(@, msg)]
  /\ UNCHANGED <<flagVars, clientVars, timerVars, histVars, op>>
  /\ UNCHANGED taskVars

\* a loop that runs one iteration too many (i <= budget)
PollResult_OffByOne(c, budget) ==
  IF isReady THEN Returned(c, TRUE, NoQr, FALSE)
  ELSE IF qrCode # NoQr THEN Returned(c, FALSE, qrCode, FALSE)
  ELSE IF c.i + 1 <= budget THEN [c EXCEPT !.i = @ + 1]
  ELSE Returned(c, isReady, qrCode, TRUE)

\* one iteration of a polling loop after its 1 s sleep (c.i iterations found
\* nothing before it); when the budget is used up the loop ends and the
\* function returns the stored state
PollResult(c, budget) ==
  IF isReady THEN Returned(c, TRUE, NoQr, FALSE)
  ELSE IF qrCode # NoQr THEN Returned(c, FALSE, qrCode, FALSE)
  ELSE IF c.i + 1 < budget THEN [c EXCEPT !.i = @ + 1]
  ELSE Returned(c, isReady, qrCode, TRUE)

PollStep(p) ==
  /\ calls[p].pc = "poll"
  /\ calls' = [calls EXCEPT ![p] = PollResult(@, PollBudget)]
  /\ UNCHANGED <<flagVars, clientVars, timerVars, histVars, op>>
  /\ UNCHANGED taskVars

RecreatePollStep(p) ==
  /\ calls[p].pc = "poll2"
  /\ calls' = [calls EXCEPT ![p] = PollResult(@, RecreatePollBudget)]
  /\ UNCHANGED <<flagVars, clientVars, timerVars, histVars, op>>
  /\ UNCHANGED taskVars

\* ------------------------------------------------------ callers of initialize
\* POST /api/whatsapp/connect: service.isConnected(), then service.initialize()
ConnectRequest(p) ==
  /\ BeginInitialize(p)
  /\ isAuthenticated' = AuthAfterIsConnected
  /\ quietLogout' = FALSE
  /\ UNCHANGED <<isReady, qrCode, client, pupPage, info, timerVars, sessionUp,
                 unmatched, op>>
  /\ UNCHANGED taskVars

\* GET /api/whatsapp/qr: initialize() only when no QR code is stored
QrRequest(p) ==
  /\ qrCode = NoQr
  /\ BeginInitialize(p)
  /\ quietLogout' = FALSE
  /\ UNCHANGED <<flagVars, client, pupPage, info, timerVars, sessionUp,
                 unmatched, op>>
  /\ UNCHANGED taskVars

\* the constructor's setTimeout(..., 2000) callback
AutoInitTimer(p) ==
  /\ autoPending
  /\ autoPending' = FALSE
  /\ IF client # NoClient /\ ~isReady /\ ~IsClientInitialized
     THEN BeginInitialize(p)
     ELSE p = 1 /\ UNCHANGED <<calls, initCalls>>
  /\ UNCHANGED <<flagVars, client, pupPage, info, reconnectTimers, histVars, op>>
  /\ UNCHANGED taskVars

\* a reconnect callback that calls initialize() without looking at the state
ReconnectTimer_Unconditional(p) ==
  /\ reconnectTimers > 0
  /\ reconnectTimers' = reconnectTimers - 1
  /\ BeginInitialize(p)
  /\ UNCHANGED <<flagVars, client, pupPage, info, autoPending, histVars, op>>
  /\ UNCHANGED taskVars

\* the disconnected handler's setTimeout(..., 3000) callback
ReconnectTimer(p) ==
  /\ reconnectTimers > 0
  /\ reconnectTimers' = reconnectTimers - 1
  /\ IF ~isReady /\ client # NoClient
     THEN BeginInitialize(p)
     ELSE p = 1 /\ UNCHANGED <<calls, initCalls>>
  /\ UNCHANGED <<flagVars, client, pupPage, info, autoPending, histVars, op>>
  /\ UNCHANGED taskVars

\* GET /api/whatsapp/status: service.isConnected(), service.getQRCode()
StatusRequest ==
  /\ isAuthenticated' = AuthAfterIsConnected
  /\ UNCHANGED <<isReady, qrCode, clientVars, calls, timerVars, histVars, op>>
  /\ UNCHANGED taskVars

\* -------------------------------------------------------- message operations
\* a guard that only tests that the client object exists
GuardPasses_ClientOnly(kind) == kind \in OpKinds /\ client # NoClient

\* the connectivity guard at the head of each message operation
GuardPasses(kind) ==
  IF kind = "getRecentMessages"
  THEN client # NoClient /\ isReady
  ELSE client # NoClient /\ IsConnected

\* a message operation from its entry to its first await (client.getChats())
CallOp(kind) ==
  /\ op.st # "inflight"
  /\ isAuthenticated' = IF kind = "getRecentMessages" THEN isAuthenticated
                        ELSE AuthAfterIsConnected
  /\ IF GuardPasses(kind)
     THEN op' = [kind |-> kind, st |-> "inflight", conn |-> IsConnected,
                 called |-> TRUE, err |-> NoMessage]
     ELSE op' = [kind |-> kind, st |-> "rejected", conn |-> IsConnected,
                 called |-> FALSE, err |-> MsgNotConnected]
  /\ UNCHANGED <<isReady, qrCode, clientVars, calls, timerVars, histVars>>
  /\ UNCHANGED taskVars

OpSucceeds ==
  /\ op.st = "inflight"
  /\ op' = IdleOp
  /\ UNCHANGED <<flagVars, clientVars, calls, timerVars, histVars>>
  /\ UNCHANGED taskVars

\* the catch blocks of getRecentMessages and getUnreadMessages reset the flags
ResetsFlags(kind, msg) ==
  /\ kind \in {"getRecentMessages", "getUnreadMessages"}
  /\ (Includes(msg, "not connected") \/ Includes(msg, "Session"))

\* an underlying call rejects: the operation's catch block, which rethrows
OpFails(msg) ==
  /\ op.st = "inflight"
  /\ msg \in OpErrors
  /\ op' = IdleOp
  /\ IF ResetsFlags(op.kind, msg)
     THEN isReady' = FALSE /\ isAuthenticated' = FALSE
     ELSE UNCHANGED <<isReady, isAuthenticated>>
  /\ UNCHANGED <<qrCode, clientVars, calls, timerVars, histVars>>
  /\ UNCHANGED taskVars

\* -------------------------------------------------------------- specification
\* steps of the initialize() invocation in slot p
CallStep(p) ==
  \/ Settle(p)
  \/ InitResolves(p)
  \/ \E m \in ClientErrors : InitRejects(p, m)
  \/ Recreate(p)
  \/ ReinitResolves(p)
  \/ \E m \in ClientErrors : ReinitRejects(p, m)
  \/ PollStep(p)
  \/ RecreatePollStep(p)

Event ==
  \/ OnQr
  \/ OnReady
  \/ OnAuthenticated
  \/ OnAuthFailure
  \/ \E r \in DisconnectReasons, k \in BOOLEAN : OnDisconnected(r, k)

\* The whole adapter, its callers beginning initialize() one at a time.
Next ==
  \/ Event
  \/ ConnectRequest(1)
  \/ QrRequest(1)
  \/ AutoInitTimer(1)
  \/ ReconnectTimer(1)
  \/ StatusRequest
  \/ PageLaunched
  \/ CallStep(1)
  \/ \E k \in OpKinds : CallOp(k)
  \/ OpSucceeds
  \/ \E m \in OpErrors : OpFails(m)

Spec == Init /\ [][Next]_vars

\* the 1 s sleeps of the polling loops elapse
FairSpec == Spec /\ WF_vars(PollStep(1)) /\ WF_vars(RecreatePollStep(1))

\* initialize() invocations overlapping: connect requests, the start-up timer
\* and reconnect timers interleaved, without status queries or message
\* operations (which initialize() neither reads nor waits for).
NextConcurrent ==
  \/ Event
  \/ \E p \in Slots : ConnectRequest(p)
  \/ \E p \in Slots : QrRequest(p)
  \/ \E p \in Slots : AutoInitTimer(p)
  \/ \E p \in Slots : ReconnectTimer(p)
  \/ PageLaunched
  \/ \E p \in Slots : CallStep(p)

SpecConcurrent == Init /\ [][NextConcurrent]_vars

\* ------------------------------------------------------------------- claims
\* C1: whenever isConnected() returns true, the stored QR payload is null.
C1_ConnectedImpliesNoQr == IsConnected => qrCode = NoQr

\* C2: every event that leaves qr_pending (authenticated, ready, auth_failure,
\* disconnected) leaves the stored QR payload null.
C2_LeavingQrPendingClearsQr ==
  [][(\/ OnAuthenticated
      \/ OnReady
      \/ OnAuthFailure
      \/ \E r \in DisconnectReasons, k \in BOOLEAN : OnDisconnected(r, k))
     => qrCode' = NoQr]_vars

\* C3: isConnected() returns true from an authenticated or ready event on, for
\* as long as no disconnected or auth_failure event has occurred since.
C3_UpImpliesConnected == sessionUp => IsConnected

\* C4: isConnected() returns false before the first authenticated or ready
\* event and from a disconnected or auth_failure event until the next one,
\* whatever the client object's page and info fields hold.
C4_DownImpliesNotConnected == ~sessionUp => ~IsConnected

\* C5: the reconnect timers scheduled are as many as the disconnected events
\* with a reason other than LOGOUT, one per event, and no other step (a failed
\* or timed-out reconnect attempt included) schedules one.
C5_OneReconnectPerDisconnect ==
  /\ [](unmatched = 0)
  /\ [][reconnectTimers' > reconnectTimers =>
          /\ reconnectTimers' = reconnectTimers + 1
          /\ \E r \in DisconnectReasons \ {"LOGOUT"}, k \in BOOLEAN :
               OnDisconnected(r, k)]_vars

\* two reconnect timers are pending after two disconnected events
C5_Witness == reconnectTimers = 2 /\ ~quietLogout

\* C6: after disconnected(LOGOUT), until the next event or explicit connect
\* request, the adapter is not connected and stores no QR payload.
C6_LogoutStaysDisconnected == quietLogout => (~IsConnected /\ qrCode = NoQr)

\* C7: client.initialize() is invoked at most once on a client object.
C7_InitializeOncePerClient == initCalls <= 1

\* C8: the first polling loop checks the state at most PollBudget times, a
\* check that finds readiness or a payload returns it at once, a check that
\* finds neither returns only when it is check number PollBudget, and then
\* as a result: an invocation that did not recreate the client returns ready
\* without payload, a payload without ready, or neither after the loop; a
\* polling invocation always returns.
C8_PollReturns ==
  /\ [](\A p \in Slots :
          /\ calls[p].pc = "poll" => calls[p].i < PollBudget
          /\ (calls[p].pc = "returned" /\ calls[p].recr = 0) =>
               \/ calls[p].ready /\ calls[p].qr = NoQr /\ ~calls[p].timedOut
               \/ ~calls[p].ready /\ calls[p].qr # NoQr /\ ~calls[p].timedOut
               \/ ~calls[p].ready /\ calls[p].qr = NoQr /\ calls[p].timedOut)
  /\ [][\A p \in Slots :
          calls[p].pc = "poll" =>
            /\ calls'[p].pc \in {"poll", "returned"}
            /\ (calls'[p].pc = "poll" /\ calls'[p].i # calls[p].i) =>
                 (~isReady /\ qrCode = NoQr /\ calls'[p].i = calls[p].i + 1)
            /\ (calls'[p].pc = "returned" /\ isReady) =>
                 (calls'[p].ready /\ calls'[p].qr = NoQr)
            /\ (calls'[p].pc = "returned" /\ ~isReady /\ qrCode # NoQr) =>
                 (~calls'[p].ready /\ calls'[p].qr = qrCode)
            /\ (calls'[p].pc = "returned" /\ ~isReady /\ qrCode = NoQr) =>
                 (calls[p].i + 1 = PollBudget /\ calls'[p].timedOut)]_vars
  /\ (calls[1].pc = "poll") ~> (calls[1].pc = "returned")

\* an invocation returned neither readiness nor a payload after the loop
C8_Witness ==
  /\ calls[1].pc = "returned" /\ calls[1].recr = 0 /\ calls[1].timedOut
  /\ ~calls[1].ready /\ calls[1].qr = NoQr

\* the initialization errors that indicate session corruption
C9_CorruptionErrors == {MsgSessionClosed, MsgTargetClosed, MsgCtxDestroyed}

\* C9: only a session-corruption error makes initialize() recreate the client,
\* an invocation recreates at most once, each recreation installs a new client
\* object on which initialize is invoked once, the second loop checks at most
\* RecreatePollBudget times, and every other error, like an error of the
\* re-initialization, is thrown to the caller with the client left as it is.
C9_RecreateOnce ==
  /\ [](\A p \in Slots :
          /\ calls[p].recr <= 1
          /\ calls[p].pc \in {"destroying", "awaitReinit"} =>
               calls[p].err \in C9_CorruptionErrors
          /\ calls[p].pc \in {"awaitReinit", "poll2"} => calls[p].recr = 1
          /\ calls[p].pc = "poll2" => calls[p].i < RecreatePollBudget
          /\ (calls[p].pc = "threw" /\ calls[p].recr = 0) =>
               calls[p].err \notin C9_CorruptionErrors)
  /\ [][\A p \in Slots :
          /\ calls'[p].recr > calls[p].recr =>
               /\ calls[p].pc = "destroying"
               /\ client' # client /\ initCalls' = 1
          /\ (calls[p].pc = "poll2" /\ calls'[p].pc = "returned"
                /\ ~isReady /\ qrCode = NoQr) =>
               calls[p].i + 1 = RecreatePollBudget
          /\ (calls[p].pc \in {"awaitInit", "awaitReinit"}
                /\ calls'[p].pc \in {"threw", "destroying"}) =>
               /\ client' = client /\ initCalls' = initCalls
               /\ calls'[p].pc = "destroying" =>
                    (calls[p].pc = "awaitInit" /\ calls[p].recr = 0)]_vars

\* the re-initialization of a recreated client failed and was thrown
C9_Witness == calls[1].pc = "threw" /\ calls[1].recr = 1

\* C10: a message operation called while isConnected() is false is rejected
\* with a 'not connected' error before any call to the underlying client.
C10_NotConnectedRejected ==
  (op.st # "idle" /\ ~op.conn) =>
    (op.st = "rejected" /\ ~op.called /\ Includes(op.err, "not connected"))

\* sendMessage was rejected by its guard
C10_Witness ==
  op.st = "rejected" /\ op.kind = "sendMessage" /\ ~op.conn

\* ------------------------------------------------------------ message listings
\* the adapter after the ready event of its first client
AdapterReady ==
  /\ client = 1
  /\ isReady = TRUE
  /\ isAuthenticated = TRUE
  /\ qrCode = NoQr
  /\ pupPage = TRUE
  /\ info = TRUE
  /\ initCalls = 1
  /\ calls = [p \in Slots |-> IdleCall]
  /\ autoPending = TRUE
  /\ reconnectTimers = 0
  /\ sessionUp = TRUE
  /\ quietLogout = FALSE
  /\ unmatched = 0
  /\ op = IdleOp

adapterVars == <<client, qrCode, pupPage, info, initCalls, calls, autoPending,
                 reconnectTimers, sessionUp, quietLogout, unmatched, op, service, ai>>

ListingKinds == {"getRecentMessages", "getUnreadMessages", "getMessagesFromContact"}

MsgContactNotFound == <<"Contact \"", "name", "\" not found">>

\* seen counts the chats the loop has passed, fetched those whose fetch resolved,
\* failed those whose fetch rejected, unreadable those among them that rejected
\* with the contact error
IdleListing ==
  [pc |-> "idle", kind |-> "none", limit |-> 0, seen |-> 0, acc |-> << >>,
   good |-> {}, fetched |-> 0, failed |-> 0, unreadable |-> 0, result |-> << >>,
   err |-> NoMessage]

\* message n of chat c with timestamp t, as pushed into the result array
Message(c, n, t) == [chat |-> c, n |-> n, ts |-> t]

\* the arrays chat.fetchMessages({ limit }) of chat c can resolve with
FetchResults(c, limit) ==
  UNION {{[k \in 1..len |-> Message(c, k, f[k])] : f \in [1..len -> 1..MaxTs]} :
           len \in 0..limit}

Range(seq) == {seq[k] : k \in DOMAIN seq}

\* m placed into an array sorted by (a, b) => b.timestamp - a.timestamp,
\* behind the elements that do not compare after it (the sort is stable)
InsertByTimestampDesc(sorted, m) ==
  LET ahead == {k \in DOMAIN sorted : sorted[k].ts >= m.ts}
      at == IF ahead = {} THEN 0 ELSE CHOOSE k \in ahead : \A j \in ahead : j <= k
  IN  SubSeq(sorted, 1, at) \o <<m>> \o SubSeq(sorted, at + 1, Len(sorted))

RECURSIVE SortByTimestampDesc(_)
\* messages.sort((a, b) => b.timestamp.getTime() - a.timestamp.getTime())
SortByTimestampDesc(seq) ==
  IF seq = << >> THEN << >>
  ELSE InsertByTimestampDesc(SortByTimestampDesc(SubSeq(seq, 1, Len(seq) - 1)),
                             seq[Len(seq)])

\* array.slice(0, n)
Slice(seq, n) == SubSeq(seq, 1, IF n < Len(seq) THEN n ELSE Len(seq))

ListingThrew(l, msg) == [l EXCEPT !.pc = "threw", !.err = msg]

\* the values of the limit parameter (getUnreadMessages has none)
Limits(kind) ==
  IF kind = "getRecentMessages" THEN 1..MaxChats
  ELSE IF kind = "getMessagesFromContact" THEN 1..MaxMsgs
  ELSE {0}

\* a listing from its entry to its first await (client.getChats())
StartListing(kind, limit) ==
  /\ listing.pc = "idle"
  /\ kind \in ListingKinds
  /\ limit \in Limits(kind)
  /\ isAuthenticated' = IF kind = "getRecentMessages" THEN isAuthenticated
                        ELSE AuthAfterIsConnected
  /\ listing' = IF GuardPasses(kind)
                THEN [IdleListing EXCEPT !.pc = "getChats", !.kind = kind,
                                         !.limit = limit]
                ELSE ListingThrew([IdleListing EXCEPT !.kind = kind], MsgNotConnected)
  /\ UNCHANGED <<isReady, adapterVars, route, chat, parse>>

\* client.getChats() rejects: the outer catch block, which rethrows
GetChatsRejects(msg) ==
  /\ listing.pc = "getChats"
  /\ msg \in OpErrors
  /\ listing' = ListingThrew(listing, msg)
  /\ IF ResetsFlags(listing.kind, msg)
     THEN isReady' = FALSE /\ isAuthenticated' = FALSE
     ELSE UNCHANGED <<isReady, isAuthenticated>>
  /\ UNCHANGED <<adapterVars, route, chat, parse>>

GetChatsResolves ==
  /\ listing.pc = "getChats"
  /\ listing' = [listing EXCEPT !.pc = IF listing.kind = "getMessagesFromContact"
                                        THEN "find" ELSE "loop"]
  /\ UNCHANGED <<isReady, isAuthenticated, adapterVars, route, chat, parse>>

\* fetchError.message?.includes('getIsMyContact') || ...includes('ContactMethods')
IsContactError(msg) == Includes(msg, "getIsMyContact") \/ Includes(msg, "ContactMethods")

\* the chat is left out and the loop goes on
SkipChat(l) == [l EXCEPT !.seen = @ + 1, !.failed = @ + 1]

\* a per-chat handler that lets every error but the contact error end the listing
AfterFetchError_Rethrows(l, msg) ==
  IF IsContactError(msg) THEN SkipChat(l) ELSE ListingThrew(l, msg)

\* getUnreadMessages after chat.fetchMessages() rejected: the inner catch skips
\* the chat on a contact error and rethrows any other error to the catch
\* around the chat, which logs it and continues as well
AfterFetchError(l, msg) ==
  IF IsContactError(msg) THEN [SkipChat(l) EXCEPT !.unreadable = @ + 1]
  ELSE SkipChat(l)

\* getUnreadMessages: a chat with unreadCount = 0
UnreadSkipsReadChat ==
  /\ listing.pc = "loop" /\ listing.kind = "getUnreadMessages"
  /\ listing.seen < MaxChats
  /\ listing' = [listing EXCEPT !.seen = @ + 1]
  /\ UNCHANGED <<isReady, isAuthenticated, adapterVars, route, chat, parse>>

\* getUnreadMessages: a chat with unreadCount = count whose fetch resolves
UnreadFetchResolves(count, msgs) ==
  /\ listing.pc = "loop" /\ listing.kind = "getUnreadMessages"
  /\ listing.seen < MaxChats
  /\ count \in 1..MaxMsgs
  /\ msgs \in FetchResults(listing.seen + 1, count)
  /\ listing' = [listing EXCEPT !.seen = @ + 1, !.fetched = @ + 1,
                                !.acc = @ \o Slice(msgs, count),
                                !.good = @ \cup Range(Slice(msgs, count))]
  /\ UNCHANGED <<isReady, isAuthenticated, adapterVars, route, chat, parse>>

\* getUnreadMessages: a chat with unread messages whose fetch rejects
UnreadFetchRejects(msg) ==
  /\ listing.pc = "loop" /\ listing.kind = "getUnreadMessages"
  /\ listing.seen < MaxChats
  /\ msg \in OpErrors
  /\ listing' = AfterFetchError(listing, msg)
  /\ UNCHANGED <<isReady, isAuthenticated, adapterVars, route, chat, parse>>

\* getUnreadMessages after its loop: sort and return
UnreadReturns ==
  /\ listing.pc = "loop" /\ listing.kind = "getUnreadMessages"
  /\ listing' = [listing EXCEPT !.pc = "returned",
                                !.result = SortByTimestampDesc(listing.acc)]
  /\ UNCHANGED <<isReady, isAuthenticated, adapterVars, route, chat, parse>>

\* getRecentMessages: a chat of chats.slice(0, limit) left out by the contact
\* filter, or whose fetch resolves with no message
RecentSkipsChat ==
  /\ listing.pc = "loop" /\ listing.kind = "getRecentMessages"
  /\ listing.seen < listing.limit
  /\ listing' = [listing EXCEPT !.seen = @ + 1]
  /\ UNCHANGED <<isReady, isAuthenticated, adapterVars, route, chat, parse>>

\* getRecentMessages: chat.fetchMessages({ limit: 1 }) resolves, chatMessages[0]
\* is pushed
RecentFetchResolves(msgs) ==
  /\ listing.pc = "loop" /\ listing.kind = "getRecentMessages"
  /\ listing.seen < listing.limit
  /\ msgs \in FetchResults(listing.seen + 1, 1)
  /\ msgs # << >>
  /\ listing' = [listing EXCEPT !.seen = @ + 1, !.acc = Append(@, msgs[1]),
                                !.good = @ \cup {msgs[1]}]
  /\ UNCHANGED <<isReady, isAuthenticated, adapterVars, route, chat, parse>>

\* getRecentMessages: a fetch rejects, the catch block resets the flags on a
\* connection error and rethrows
RecentFetchRejects(msg) ==
  /\ listing.pc = "loop" /\ listing.kind = "getRecentMessages"
  /\ listing.seen < listing.limit
  /\ msg \in OpErrors
  /\ listing' = ListingThrew(listing, msg)
  /\ IF ResetsFlags(listing.kind, msg)
     THEN isReady' = FALSE /\ isAuthenticated' = FALSE
     ELSE UNCHANGED <<isReady, isAuthenticated>>
  /\ UNCHANGED <<adapterVars, route, chat, parse>>

\* getRecentMessages after its loop: sort, return messages.slice(0, limit)
RecentReturns ==
  /\ listing.pc = "loop" /\ listing.kind = "getRecentMessages"
  /\ listing' = [listing EXCEPT !.pc = "returned",
                   !.result = Slice(SortByTimestampDesc(listing.acc), listing.limit)]
  /\ UNCHANGED <<isReady, isAuthenticated, adapterVars, route, chat, parse>>

\* getMessagesFromContact: the chat is found by name or through the contacts
\* (whose lookup may fail and is then ignored), or is not found
ContactLookup(found) ==
  /\ listing.pc = "find"
  /\ listing' = IF found THEN [listing EXCEPT !.pc = "fetch"]
                ELSE ListingThrew(listing, MsgContactNotFound)
  /\ UNCHANGED <<isReady, isAuthenticated, adapterVars, route, chat, parse>>

\* getMessagesFromContact: targetChat.fetchMessages({ limit }) resolves and
\* the messages are mapped one by one, in the order received
ContactFetchResolves(msgs) ==
  /\ listing.pc = "fetch"
  /\ msgs \in FetchResults(1, listing.limit)
  /\ listing' = [listing EXCEPT !.pc = "returned", !.seen = 1, !.acc = msgs,
                                !.good = Range(msgs),
                                !.result = [k \in DOMAIN msgs |-> msgs[k]]]
  /\ UNCHANGED <<isReady, isAuthenticated, adapterVars, route, chat, parse>>

\* getMessagesFromContact: the fetch rejects, the catch block rethrows
ContactFetchRejects(msg) ==
  /\ listing.pc = "fetch"
  /\ msg \in OpErrors
  /\ listing' = ListingThrew(listing, msg)
  /\ UNCHANGED <<isReady, isAuthenticated, adapterVars, route, chat, parse>>

InitListing ==
  /\ AdapterReady
  /\ listing = IdleListing
  /\ route = NoTask
  /\ chat = NoTask
  /\ parse = NoTask
  /\ service = OneService
  /\ ai = IdleAi

NextListing ==
  \/ \E k \in ListingKinds : \E n \in Limits(k) : StartListing(k, n)
  \/ \E m \in OpErrors : GetChatsRejects(m)
  \/ GetChatsResolves
  \/ UnreadSkipsReadChat
  \/ \E c \in 1..MaxMsgs : \E ms \in FetchResults(listing.seen + 1, c) :
       UnreadFetchResolves(c, ms)
  \/ \E m \in OpErrors : UnreadFetchRejects(m)
  \/ UnreadReturns
  \/ RecentSkipsChat
  \/ \E ms \in FetchResults(listing.seen + 1, 1) : RecentFetchResolves(ms)
  \/ \E m \in OpErrors : RecentFetchRejects(m)
  \/ RecentReturns
  \/ \E f \in BOOLEAN : ContactLookup(f)
  \/ \E ms \in FetchResults(1, MaxMsgs) : ContactFetchResolves(ms)
  \/ \E m \in OpErrors : ContactFetchRejects(m)

\* The adapter, connected, serving one message listing.
SpecListing == InitListing /\ [][NextListing]_vars

IsSortedDesc(seq) ==
  \A j, k \in DOMAIN seq : j < k => seq[j].ts >= seq[k].ts

\* C11: getUnreadMessages is never ended by a chat that fails: from its loop
\* it only goes on or returns, and it returns exactly the unread messages of
\* the chats whose fetch did not fail, most recent first.
C11_BrokenChatsAreSkipped ==
  /\ [](listing.kind = "getUnreadMessages" =>
          /\ listing.pc = "threw" => (listing.seen = 0 /\ listing.failed = 0)
          /\ listing.pc = "returned" =>
               /\ Range(listing.result) = listing.good
               /\ Len(listing.result) = Cardinality(listing.good)
               /\ IsSortedDesc(listing.result))
  /\ [][(listing.kind = "getUnreadMessages" /\ listing.pc = "loop") =>
          listing'.pc \in {"loop", "returned"}]_vars

\* a listing returned the messages of its second chat after its first chat failed
C11_Witness ==
  /\ listing.kind = "getUnreadMessages" /\ listing.pc = "returned"
  /\ listing.failed = 1 /\ listing.seen = 2
  /\ \E m \in listing.good : m.chat = 2
  /\ Len(listing.result) = 2 /\ listing.acc # listing.result

\* C12: every multi-message result (getRecentMessages, getUnreadMessages,
\* getMessagesFromContact) is ordered by timestamp descending.
C12_ResultsSortedDesc == listing.pc = "returned" => IsSortedDesc(listing.result)

\* ------------------------------------------------------ POST /api/whatsapp/send
\* the adapter as constructed, before any event
AdapterFresh ==
  /\ client = 1
  /\ isReady = FALSE
  /\ isAuthenticated = FALSE
  /\ qrCode = NoQr
  /\ pupPage = FALSE
  /\ info = FALSE
  /\ initCalls = 0
  /\ calls = [p \in Slots |-> IdleCall]
  /\ autoPending = TRUE
  /\ reconnectTimers = 0
  /\ sessionUp = FALSE
  /\ quietLogout = FALSE
  /\ unmatched = 0
  /\ op = IdleOp

\* a field the JSON body does not carry
Undefined == "<undefined>"

\* JavaScript truthiness of an optional string
Truthy(v) == v # Undefined /\ v # ""

\* values of the body's fields
BodyContacts == {Undefined, "", "John"}
BodyMessages == {Undefined, "", "hello"}
BodyReplyTos == {Undefined, "", "3EB0A1"}

MsgMessageRequired == <<"Message is required">>
MsgServiceUnavailable == <<"WhatsApp service unavailable">>
MsgRouteNotConnected == <<"WhatsApp ", "not connected", ". Please connect first.">>
MsgTargetRequired == <<"Either contact or replyTo is required">>
MsgFailedToSend == <<"Failed to send message">>
MsgBadJson == <<"Unexpected token in JSON">>

IdleRoute ==
  [pc |-> "idle", contact |-> Undefined, message |-> Undefined,
   replyTo |-> Undefined, url |-> FALSE, status |-> 0, error |-> NoMessage,
   called |-> "none", external |-> "none"]

\* return NextResponse.json({ error }, { status })
Respond(r, status, error) ==
  [r EXCEPT !.pc = "responded", !.status = status, !.error = error]

\* a dispatch that treats a request without replyTo as a send to its contact
Dispatch_SendByDefault(r) ==
  IF Truthy(r.replyTo) THEN "replyToMessage" ELSE "sendMessage"

\* if (replyTo) ... else if (contact) ... else reject
Dispatch(r) ==
  IF Truthy(r.replyTo) THEN "replyToMessage"
  ELSE IF Truthy(r.contact) THEN "sendMessage"
  ELSE "reject"

\* the local part of the handler, up to its await of the adapter operation
LocalSend(r) ==
  IF ~IsConnected THEN Respond(r, 400, MsgRouteNotConnected)
  ELSE IF Dispatch(r) = "reject" THEN Respond(r, 400, MsgTargetRequired)
  ELSE [r EXCEPT !.pc = "adapter", !.called = Dispatch(r)]

\* the answer of the external service's POST /send: its status and what it did
ExternalSend(r, extReady, found, fails) ==
  IF ~extReady THEN [status |-> 400, did |-> "none"]
  ELSE IF Truthy(r.replyTo)
       THEN IF fails THEN [status |-> 500, did |-> "none"]
            ELSE [status |-> 200, did |-> "replied"]
  ELSE IF Truthy(r.contact)
       THEN IF fails THEN [status |-> 500, did |-> "none"]
            ELSE IF found THEN [status |-> 200, did |-> "sent"]
            ELSE [status |-> 404, did |-> "none"]
  ELSE [status |-> 400, did |-> "none"]

\* POST: the body is parsed and checked; then the external fetch is issued or
\* the local part runs
PostSend(contact, message, replyTo, url) ==
  /\ route.pc \in {"idle", "responded"}
  /\ contact \in BodyContacts /\ message \in BodyMessages
  /\ replyTo \in BodyReplyTos /\ url \in BOOLEAN
  /\ LET r == [IdleRoute EXCEPT !.contact = contact, !.message = message,
                                !.replyTo = replyTo, !.url = url]
     IN  IF ~Truthy(message)
         THEN /\ route' = Respond(r, 400, MsgMessageRequired)
              /\ UNCHANGED isAuthenticated
         ELSE IF url
         THEN /\ route' = [r EXCEPT !.pc = "fetch"]
              /\ UNCHANGED isAuthenticated
         ELSE /\ route' = LocalSend(r)
              /\ isAuthenticated' = AuthAfterIsConnected
  /\ UNCHANGED <<isReady, adapterVars, listing, chat, parse>>

\* await request.json() rejects: the outer catch answers 500
PostSendBadJson ==
  /\ route.pc \in {"idle", "responded"}
  /\ route' = Respond(IdleRoute, 500, MsgBadJson)
  /\ UNCHANGED <<isReady, isAuthenticated, adapterVars, listing, chat, parse>>

\* the external service answers: an ok answer is passed on, any other answer
\* falls through to the local part
ExternalAnswers(extReady, found, fails) ==
  /\ route.pc = "fetch"
  /\ LET a == ExternalSend(route, extReady, found, fails)
         r == [route EXCEPT !.external = a.did]
     IN  IF a.status = 200
         THEN /\ route' = Respond(r, 200, NoMessage)
              /\ UNCHANGED isAuthenticated
         ELSE /\ route' = LocalSend(r)
              /\ isAuthenticated' = AuthAfterIsConnected
  /\ UNCHANGED <<isReady, adapterVars, listing, chat, parse>>

\* the fetch of the external service throws
ExternalUnreachable ==
  /\ route.pc = "fetch"
  /\ route' = Respond(route, 503, MsgServiceUnavailable)
  /\ UNCHANGED <<isReady, isAuthenticated, adapterVars, listing, chat, parse>>

\* service.sendMessage / service.replyToMessage resolves
AdapterSendResolves ==
  /\ route.pc = "adapter"
  /\ route' = Respond(route, 200, NoMessage)
  /\ UNCHANGED <<isReady, isAuthenticated, adapterVars, listing, chat, parse>>

\* it rejects: error: localError.message || 'Failed to send message', status 500
AdapterSendRejects(msg) ==
  /\ route.pc = "adapter"
  /\ msg \in OpErrors \cup {MsgContactNotFound}
  /\ route' = Respond(route, 500, IF msg = NoMessage THEN MsgFailedToSend ELSE msg)
  /\ UNCHANGED <<isReady, isAuthenticated, adapterVars, listing, chat, parse>>

InitRoute ==
  /\ AdapterFresh \/ AdapterReady
  /\ listing = NoTask
  /\ route = IdleRoute
  /\ chat = NoTask
  /\ parse = NoTask
  /\ service = OneService
  /\ ai = IdleAi

NextRoute ==
  \/ \E c \in BodyContacts, m \in BodyMessages, t \in BodyReplyTos, u \in BOOLEAN :
       PostSend(c, m, t, u)
  \/ PostSendBadJson
  \/ \E e, f, x \in BOOLEAN : ExternalAnswers(e, f, x)
  \/ ExternalUnreachable
  \/ AdapterSendResolves
  \/ \E m \in OpErrors \cup {MsgContactNotFound} : AdapterSendRejects(m)

\* The send endpoint serving one request after another, on an adapter that is
\* connected or not.
SpecRoute == InitRoute /\ [][NextRoute]_vars

\* C13: a send request with neither a contact nor a replyTo never reaches
\* sendMessage or replyToMessage, makes the external service send nothing, and
\* is answered with an error status.
C13_TargetlessSendRejected ==
  (~Truthy(route.contact) /\ ~Truthy(route.replyTo)) =>
    /\ route.called = "none" /\ route.external = "none"
    /\ route.pc # "adapter"
    /\ route.pc = "responded" => (route.status >= 400 /\ route.error # NoMessage)

\* a request with a message but no target was answered by the local check
C13_Witness ==
  /\ route.pc = "responded" /\ Truthy(route.message)
  /\ ~Truthy(route.contact) /\ ~Truthy(route.replyTo)
  /\ route.error = MsgTargetRequired

\* ---------------------------------------------------------------- status query
\* C14: a status query leaves the answers of the next status query, the
\* connectivity and the QR payload, as they were for this one.
C14_StatusIdempotent ==
  [][StatusRequest => (IsConnected' = IsConnected /\ qrCode' = qrCode)]_vars

\* a status query found the client's info with both flags down and answered
\* connected
C14_Witness ==
  /\ ~isReady /\ isAuthenticated /\ info /\ ~sessionUp
  /\ IsConnected /\ op = IdleOp /\ calls[1].pc = "idle"

\* C15: a status query and every message operation, succeeding or failing,
\* leave the ready flag, the authenticated flag and the QR payload unchanged.
C15_QueriesAndOpsKeepState ==
  [][(\/ StatusRequest
      \/ \E k \in OpKinds : CallOp(k)
      \/ OpSucceeds
      \/ \E m \in OpErrors : OpFails(m))
     => UNCHANGED flagVars]_vars

\* -------------------------------------------------------- handleWhatsAppCommand
\* the adapter after the authenticated event, before ready
AdapterAuthenticated ==
  /\ client = 1
  /\ isReady = FALSE
  /\ isAuthenticated = TRUE
  /\ qrCode = NoQr
  /\ pupPage = TRUE
  /\ info = FALSE
  /\ initCalls = 1
  /\ calls = [p \in Slots |-> IdleCall]
  /\ autoPending = TRUE
  /\ reconnectTimers = 0
  /\ sessionUp = TRUE
  /\ quietLogout = FALSE
  /\ unmatched = 0
  /\ op = IdleOp

CommandActions == {"check", "send", "reply", "read", "unknown"}
CommandTargets == {Undefined, "John"}
CommandMessages == {Undefined, "", "hello"}

\* the replies of handleWhatsAppCommand
Replies ==
  {"unavailable", "notConnected", "nothingNew", "messageList", "troubleReading",
   "clarify", "sent", "replied", "noRecentMessages", "specifyWho",
   "noMessagesFound", "messagesFrom", "notSure", "connectInstruction",
   "couldntComplete"}

IdleChat ==
  [pc |-> "idle", action |-> "unknown", target |-> Undefined,
   message |-> Undefined, unread |-> FALSE, conn |-> FALSE, awaiting |-> "none",
   called |-> {}, body |-> Undefined, failed |-> FALSE, failure |-> NoMessage,
   reply |-> "none", reason |-> NoMessage]

Reply(c, text) == [c EXCEPT !.pc = "replied", !.awaiting = "none", !.reply = text]

\* the outer catch block: error.message.includes('not connected'); reading
\* includes of an undefined message throws a TypeError out of the handler
OuterCatch(c, msg) ==
  IF msg = NoMessage THEN [c EXCEPT !.pc = "threw", !.awaiting = "none"]
  ELSE IF Includes(msg, "not connected") THEN Reply(c, "connectInstruction")
  ELSE [Reply(c, "couldntComplete") EXCEPT !.reason = msg]

\* the catch blocks an error of the awaited operation passes through
Caught(c, msg) ==
  LET f == [c EXCEPT !.failed = TRUE, !.failure = msg]
  IN  IF c.action = "check" /\ IsContactError(msg) THEN Reply(f, "troubleReading")
      ELSE OuterCatch(f, msg)

\* the handler calls an adapter operation: the operation's guard rejects at
\* once, or the handler awaits the operation
Invoke(c, kind) ==
  IF GuardPasses(kind)
  THEN [c EXCEPT !.pc = "await", !.awaiting = kind, !.called = @ \cup {kind},
                 !.body = IF kind \in {"sendMessage", "replyToMessage"}
                          THEN c.message ELSE @]
  ELSE Caught(c, MsgNotConnected)

\* a test that lets an empty body through
AsksForBody_OnlyIfAbsent(message) == message = Undefined

\* if (!command.message)
AsksForBody(message) == ~Truthy(message)

\* the handler after its connection check, up to its first await or its reply
Execute(c) ==
  IF c.action = "check"
  THEN Invoke(c, IF c.unread THEN "getUnreadMessages" ELSE "getRecentMessages")
  ELSE IF c.action = "send" /\ Truthy(c.target)
  THEN IF AsksForBody(c.message) THEN Reply(c, "clarify")
       ELSE Invoke(c, "sendMessage")
  ELSE IF c.action = "reply" /\ Truthy(c.message)
  THEN IF Truthy(c.target) THEN Invoke(c, "getMessagesFromContact")
       ELSE Reply(c, "specifyWho")
  ELSE IF c.action = "read" /\ Truthy(c.target)
  THEN Invoke(c, "getMessagesFromContact")
  ELSE Reply(c, "notSure")

\* handleWhatsAppCommand from its entry to its first await or its reply
HandleCommand(action, target, message, unread, available) ==
  /\ chat.pc \in {"idle", "replied", "threw"}
  /\ action \in CommandActions /\ target \in CommandTargets
  /\ message \in CommandMessages /\ unread \in BOOLEAN
  /\ LET c == [IdleChat EXCEPT !.action = action, !.target = target,
                               !.message = message, !.unread = unread,
                               !.conn = available /\ IsConnected]
     IN  IF ~available
         THEN chat' = Reply(c, "unavailable") /\ UNCHANGED isAuthenticated
         ELSE /\ isAuthenticated' = AuthAfterIsConnected
              /\ chat' = IF IsConnected THEN Execute(c) ELSE Reply(c, "notConnected")
  /\ UNCHANGED <<isReady, adapterVars, listing, route, parse>>

\* the awaited adapter operation resolves; a listing resolves with n messages
CommandOpResolves(n) ==
  /\ chat.pc = "await"
  /\ n \in 0..1
  /\ chat' =
       IF chat.awaiting \in {"getUnreadMessages", "getRecentMessages"}
       THEN Reply(chat, IF n = 0 THEN "nothingNew" ELSE "messageList")
       ELSE IF chat.awaiting = "sendMessage" THEN Reply(chat, "sent")
       ELSE IF chat.awaiting = "replyToMessage" THEN Reply(chat, "replied")
       ELSE IF chat.action = "reply"
       THEN IF n > 0 THEN Invoke(chat, "replyToMessage")
            ELSE Reply(chat, "noRecentMessages")
       ELSE Reply(chat, IF n = 0 THEN "noMessagesFound" ELSE "messagesFrom")
  /\ isAuthenticated' =
       IF chat.awaiting = "getMessagesFromContact" /\ chat.action = "reply" /\ n > 0
       THEN AuthAfterIsConnected ELSE isAuthenticated
  /\ UNCHANGED <<isReady, adapterVars, listing, route, parse>>

\* the awaited adapter operation rejects: the adapter's catch block, then the
\* handler's
CommandOpRejects(msg) ==
  /\ chat.pc = "await"
  /\ msg \in OpErrors \cup {MsgContactNotFound}
  /\ chat' = Caught(chat, msg)
  /\ IF ResetsFlags(chat.awaiting, msg)
     THEN isReady' = FALSE /\ isAuthenticated' = FALSE
     ELSE UNCHANGED <<isReady, isAuthenticated>>
  /\ UNCHANGED <<adapterVars, listing, route, parse>>

InitChat ==
  /\ AdapterFresh \/ AdapterAuthenticated \/ AdapterReady
  /\ listing = NoTask
  /\ route = NoTask
  /\ chat = IdleChat
  /\ parse = NoTask
  /\ service = OneService
  /\ ai = IdleAi

NextChat ==
  \/ \E a \in CommandActions, t \in CommandTargets, m \in CommandMessages,
        u, v \in BOOLEAN : HandleCommand(a, t, m, u, v)
  \/ \E n \in 0..1 : CommandOpResolves(n)
  \/ \E m \in OpErrors \cup {MsgContactNotFound} : CommandOpRejects(m)

\* The command executor serving one command after another.
SpecChat == InitChat /\ [][NextChat]_vars

\* C16: sendMessage is never called with an absent or empty body; a send
\* command with a target and no body calls no adapter operation and is
\* answered, on a connected adapter, with the clarification prompt.
C16_NoEmptySend ==
  /\ "sendMessage" \in chat.called => Truthy(chat.body)
  /\ (chat.pc # "idle" /\ chat.action = "send" /\ Truthy(chat.target)
        /\ ~Truthy(chat.message)) =>
       /\ chat.pc = "replied" /\ chat.called = {}
       /\ chat.conn => chat.reply = "clarify"
       /\ ~chat.conn => chat.reply \in {"unavailable", "notConnected"}

\* a send command with an empty body was answered with the prompt
C16_Witness ==
  /\ chat.reply = "clarify" /\ chat.message = "" /\ chat.target = "John"
  /\ chat.called = {}

\* C17: every failure of an adapter operation becomes a reply: the connect
\* instruction when its message contains 'not connected', the generic
\* sentence with the reason otherwise; none leaves the handler as an exception.
C17_FailuresBecomeReplies ==
  chat.failed =>
    /\ chat.pc = "replied"
    /\ IF Includes(chat.failure, "not connected")
       THEN chat.reply = "connectInstruction"
       ELSE chat.reply = "couldntComplete" /\ chat.reason = chat.failure

\* ---------------------------------------------------------------------- strings
\* JavaScript's strings and their built-in methods; positions count from 1.
UpperCaseLetters == "ABCDEFGHIJKLMNOPQRSTUVWXYZ"
LowerCaseLetters == "abcdefghijklmnopqrstuvwxyz"

\* s.charAt(i - 1), the empty string outside the string
CharAt(s, i) == IF 1 <= i /\ i <= Len(s) THEN SubSeq(s, i, i) ELSE ""

\* s.substring(i - 1)
Substring(s, i) == SubSeq(s, i, Len(s))

LowerChar(c) ==
  IF \E k \in 1..26 : CharAt(UpperCaseLetters, k) = c
  THEN CharAt(LowerCaseLetters, CHOOSE k \in 1..26 : CharAt(UpperCaseLetters, k) = c)
  ELSE c

RECURSIVE ToLowerCase(_)
\* s.toLowerCase()
ToLowerCase(s) ==
  IF s = "" THEN "" ELSE LowerChar(CharAt(s, 1)) \o ToLowerCase(Substring(s, 2))

\* the character class [a-z] under the i flag
IsLetter(c) ==
  \E k \in 1..26 : CharAt(LowerCaseLetters, k) = c \/ CharAt(UpperCaseLetters, k) = c

\* the character class \s
IsSpace(c) == c = " "

\* s.startsWith(t, i - 1)
StartsWithAt(s, i, t) == i + Len(t) - 1 <= Len(s) /\ SubSeq(s, i, i + Len(t) - 1) = t

\* s.indexOf(t) + 1: the first position of t in s, 0 when there is none
IndexOf(s, t) ==
  LET at == {i \in 1..(Len(s) + 1) : StartsWithAt(s, i, t)}
  IN  IF at = {} THEN 0 ELSE CHOOSE i \in at : \A j \in at : i <= j

\* s.includes(t)
StrIncludes(s, t) == IndexOf(s, t) # 0

\* the position after the run of characters of the given class that starts at i
RECURSIVE SkipSpaces(_, _)
SkipSpaces(s, i) ==
  IF i <= Len(s) /\ IsSpace(CharAt(s, i)) THEN SkipSpaces(s, i + 1) ELSE i

RECURSIVE SkipLetters(_, _)
SkipLetters(s, i) ==
  IF i <= Len(s) /\ IsLetter(CharAt(s, i)) THEN SkipLetters(s, i + 1) ELSE i

RECURSIVE TrimStart(_)
TrimStart(s) == IF s # "" /\ IsSpace(CharAt(s, 1)) THEN TrimStart(Substring(s, 2)) ELSE s

RECURSIVE TrimEnd(_)
TrimEnd(s) ==
  IF s # "" /\ IsSpace(CharAt(s, Len(s))) THEN TrimEnd(SubSeq(s, 1, Len(s) - 1)) ELSE s

\* s.trim()
Trim(s) == TrimEnd(TrimStart(s))

RECURSIVE SplitWords(_)
\* s.split(/\s+/)
SplitWords(s) ==
  LET sp == {i \in 1..Len(s) : IsSpace(CharAt(s, i))}
  IN  IF sp = {} THEN <<s>>
      ELSE LET i == CHOOSE k \in sp : \A j \in sp : k <= j
           IN  <<SubSeq(s, 1, i - 1)>> \o SplitWords(Substring(s, SkipSpaces(s, i)))

RECURSIVE JoinWords(_)
\* words.join(' ')
JoinWords(ws) ==
  IF ws = << >> THEN ""
  ELSE IF Len(ws) = 1 THEN ws[1]
  ELSE ws[1] \o " " \o JoinWords(Tail(ws))

\* the least element of a non-empty set of positions, 0 for the empty set
First(S) == IF S = {} THEN 0 ELSE CHOOSE i \in S : \A j \in S : i <= j

\* the greatest element of a non-empty set of positions, 0 for the empty set
Last(S) == IF S = {} THEN 0 ELSE CHOOSE i \in S : \A j \in S : j <= i

\* ------------------------------------------------------ src/lib/command-parser.ts
\* A regular-expression match: whether it matched, and the captured text.
NoMatch == [found |-> FALSE, text |-> ""]

Match(text) == [found |-> TRUE, text |-> text]

\* [a-z]+(?:\s+[a-z]+)? from a letter at i: the position after the capture, which
\* takes a second word whenever one follows
NameEnd(s, i) ==
  LET e1 == SkipLetters(s, i)
      j  == SkipSpaces(s, e1)
  IN  IF j > e1 /\ j <= Len(s) /\ IsLetter(CharAt(s, j)) THEN SkipLetters(s, j) ELSE e1

\* keyword \s+ [a-z] at p: the position of the letter, 0 when p does not match
NameStart(low, p, keywords) ==
  LET ks == {k \in 1..Len(keywords) :
               /\ StartsWithAt(low, p, keywords[k])
               /\ LET q == p + Len(keywords[k])
                      r == SkipSpaces(low, q)
                  IN  r > q /\ r <= Len(low) /\ IsLetter(CharAt(low, r))}
  IN  IF ks = {} THEN 0 ELSE SkipSpaces(low, p + Len(keywords[First(ks)]))

\* message.match(/(?:k1|k2|..)\s+([a-z]+(?:\s+[a-z]+)?)/i): the leftmost match
MatchName(message, keywords) ==
  LET low == ToLowerCase(message)
      ps  == {p \in 1..Len(low) : NameStart(low, p, keywords) # 0}
  IN  IF ps = {} THEN NoMatch
      ELSE LET r == NameStart(low, First(ps), keywords)
           IN  Match(SubSeq(message, r, NameEnd(message, r) - 1))

NamePatterns ==
  << <<"from", "to", "with">>, <<"contact", "person">>, <<"friend", "buddy">> >>

CommonWords ==
  {"the", "a", "an", "your", "my", "his", "her", "their", "this", "that",
   "message", "text", "chat"}

AfterPhrases ==
  <<"message from", "text from", "chat with", "send to", "reply to", "message to">>

\* /^[a-z]+$/i.test(w)
IsAlphabetic(w) == w # "" /\ \A i \in 1..Len(w) : IsLetter(CharAt(w, i))

\* the first word after the phrase, when it is a name
NameAfterPhrase(message, phrase) ==
  LET index == IndexOf(ToLowerCase(message), phrase)
  IN  IF index = 0 THEN Undefined
      ELSE LET after == Trim(Substring(message, index + Len(phrase)))
               potentialName == SplitWords(after)[1]
           IN  IF Len(potentialName) > 2 /\ IsAlphabetic(potentialName)
               THEN potentialName ELSE Undefined

extractContactName(message) ==
  LET named  == {k \in 1..Len(NamePatterns) :
                   LET m == MatchName(message, NamePatterns[k])
                   IN  m.found /\ m.text # "" /\ ToLowerCase(Trim(m.text)) \notin CommonWords}
      phrased == {k \in 1..Len(AfterPhrases) :
                   NameAfterPhrase(message, AfterPhrases[k]) # Undefined}
  IN  IF named # {} THEN Trim(MatchName(message, NamePatterns[First(named)]).text)
      ELSE IF phrased # {} THEN NameAfterPhrase(message, AfterPhrases[First(phrased)])
      ELSE Undefined

RECURSIVE WordsAt(_, _, _)
\* w1 \s+ w2 \s+ .. wn at p: the position after the match, 0 when p does not match
WordsAt(low, p, ws) ==
  IF ~StartsWithAt(low, p, ws[1]) THEN 0
  ELSE LET q == p + Len(ws[1])
       IN  IF Len(ws) = 1 THEN q
           ELSE IF ~IsSpace(CharAt(low, q)) THEN 0
           ELSE WordsAt(low, SkipSpaces(low, q), Tail(ws))

Articles == {"a", "the", "an"}

\* the verb and the noun of /^verb\s+(?:a|the|an)\s+noun\s+to/i
FillerPhrases ==
  {<<"send", "message">>, <<"text", "message">>, <<"send", "text">>,
   <<"message", "message">>}

\* fillerPattern.test(message) for one of the filler phrases
IsFillerCommand(message) ==
  \E f \in FillerPhrases : \E a \in Articles :
     WordsAt(ToLowerCase(message), 1, <<f[1], a, f[2], "to">>) # 0

\* s.split(sep)[1]: the text between the first and the second occurrence of sep
SecondPart(s, sep) ==
  LET index == IndexOf(s, sep)
  IN  IF index = 0 THEN Undefined
      ELSE LET rest == Substring(s, index + Len(sep))
               next == IndexOf(rest, sep)
           IN  IF next = 0 THEN rest ELSE SubSeq(rest, 1, next - 1)

\* a filler loop that looks for the contact only, not for what follows it
IsOnlyFiller_ContactOnly(message) ==
  IsFillerCommand(message) /\ ~Truthy(extractContactName(message))

\* the filler loop returns undefined: a filler command with no contact, or with
\* fewer than three characters after the contact
IsOnlyFiller(message) ==
  /\ IsFillerCommand(message)
  /\ LET contactMatch == extractContactName(message)
     IN  \/ ~Truthy(contactMatch)
         \/ LET afterContact == SecondPart(ToLowerCase(message), ToLowerCase(contactMatch))
            IN  \/ afterContact = Undefined
                \/ Len(Trim(afterContact)) < 3

Quotes == {"\"", "'"}

\* text.replace(/^["']|["']$/g, '')
StripQuotes(text) ==
  LET t1 == IF CharAt(text, 1) \in Quotes THEN Substring(text, 2) ELSE text
  IN  IF CharAt(t1, Len(t1)) \in Quotes THEN SubSeq(t1, 1, Len(t1) - 1) ELSE t1

\* \s+ word at t: the position after the word, 0 when t does not match
SpacedWord(low, t, word) ==
  LET u == SkipSpaces(low, t)
  IN  IF u > t /\ StartsWithAt(low, u, word) THEN u + Len(word) ELSE 0

\* text.replace(/\s+to\s+[a-z]+$/i, '')
StripTrailingTo(text) ==
  LET low == ToLowerCase(text)
      ts  == {t \in 1..Len(low) :
                LET u == SpacedWord(low, t, "to")
                    v == SkipSpaces(low, u)
                IN  u # 0 /\ v > u /\ v <= Len(low) /\ SkipLetters(low, v) = Len(low) + 1}
  IN  IF ts = {} THEN text ELSE SubSeq(text, 1, First(ts) - 1)

\* /^(a|an|the)\s+message$/, .. /^chat$/ on the lower-cased, trimmed text
isFillerPhrase(text) ==
  LET lowerText == Trim(ToLowerCase(text))
  IN  \E noun \in {"message", "text", "chat"} :
         \/ lowerText = noun
         \/ \E a \in Articles :
               WordsAt(lowerText, 1, <<a, noun>>) = Len(lowerText) + 1

\* (?:\s+to\s+|\s+from\s+|$)
EndsExplicit(low, t) ==
  \/ t = Len(low) + 1
  \/ \E w \in {"to", "from"} :
        SpacedWord(low, t, w) # 0 /\ IsSpace(CharAt(low, SpacedWord(low, t, w)))

\* \s+(?:saying|with|that says)
EndsBeforeIndicator(low, t) ==
  \E w \in {"saying", "with", "that says"} : SpacedWord(low, t, w) # 0

\* \s+to\s+([a-z]+(?:\s+[a-z]+)?)
EndsBeforeContact(low, t) ==
  LET u == SpacedWord(low, t, "to")
      v == SkipSpaces(low, u)
  IN  u # 0 /\ v > u /\ v <= Len(low) /\ IsLetter(CharAt(low, v))

\* what follows the lazy capture in each of the three patterns
Terminates(terminator, low, t) ==
  CASE terminator = "explicit"  -> EndsExplicit(low, t)
    [] terminator = "indicator" -> EndsBeforeIndicator(low, t)
    [] terminator = "contact"   -> EndsBeforeContact(low, t)

\* keyword \s+ (.+?) terminator: the leftmost match; \s+ takes as many spaces as
\* leave a match, and the capture ends at the first position the terminator
\* accepts
KeywordCapture(message, keywords, terminator) ==
  LET low == ToLowerCase(message)
      Ends(st) == {e \in st..Len(low) : Terminates(terminator, low, e + 1)}
      Starts(p, k) ==
        IF ~StartsWithAt(low, p, keywords[k]) THEN {}
        ELSE LET q == p + Len(keywords[k])
             IN  {st \in (q + 1)..SkipSpaces(low, q) : st <= Len(low) /\ Ends(st) # {}}
      ps == {p \in 1..Len(low) : \E k \in 1..Len(keywords) : Starts(p, k) # {}}
  IN  IF ps = {} THEN NoMatch
      ELSE LET p  == First(ps)
               k  == First({j \in 1..Len(keywords) : Starts(p, j) # {}})
               st == Last(Starts(p, k))
           IN  Match(SubSeq(message, st, First(Ends(st))))

ExplicitIndicators ==
  <<"saying", "with", "that says", "which says", "message is", "text is">>

SendVerbs == <<"send", "text">>

\* the text an explicit pattern yields, undefined when it is empty or filler
ExplicitText(m) ==
  LET text == StripTrailingTo(StripQuotes(Trim(m.text)))
  IN  IF m.found /\ m.text # "" /\ Len(text) > 0 /\ ~isFillerPhrase(text)
      THEN text ELSE Undefined

\* /(?:send|text)\s+to\s+([a-z]+(?:\s+[a-z]+)?)\s+(.+?)$/i: the second capture of
\* the leftmost match; the name gives its second word back when nothing follows it
SendToContactMatch(message) ==
  LET low == ToLowerCase(message)
      Name(p) ==
        LET ks == {k \in 1..Len(SendVerbs) : StartsWithAt(low, p, SendVerbs[k])}
        IN  IF ks = {} THEN 0
            ELSE LET u == SpacedWord(low, p + Len(SendVerbs[First(ks)]), "to")
                     v == SkipSpaces(low, u)
                 IN  IF u # 0 /\ v > u /\ v <= Len(low) /\ IsLetter(CharAt(low, v))
                     THEN v ELSE 0
      NameEnds(n) ==
        {e \in {NameEnd(low, n), SkipLetters(low, n)} :
           IsSpace(CharAt(low, e)) /\ e + 1 <= Len(low)}
      ps == {p \in 1..Len(low) : Name(p) # 0 /\ NameEnds(Name(p)) # {}}
  IN  IF ps = {} THEN NoMatch
      ELSE LET e == Last(NameEnds(Name(First(ps))))
               u == SkipSpaces(low, e)
           IN  Match(Substring(message, IF u <= Len(low) THEN u ELSE Len(low)))

\* the text a send pattern yields, undefined when it is empty or filler
SendText(m) ==
  LET text == StripQuotes(Trim(m.text))
  IN  IF m.found /\ m.text # "" /\ ~isFillerPhrase(text) /\ Len(text) > 0
      THEN text ELSE Undefined

SkipWords ==
  {"send", "text", "message", "to", "with", "saying", "that", "a", "an", "the"}

StopWords == {"to", "from", "contact", "in", "whatsapp"}

\* the words after the first "send" or "text", from the first word that is not
\* skipped up to the first stop word
WordsAfterVerb(message) ==
  LET lowerMessage == ToLowerCase(message)
      indices == {IndexOf(lowerMessage, "send"), IndexOf(lowerMessage, "text")} \ {0}
  IN  IF indices = {} THEN Undefined
      ELSE LET after == Trim(Substring(message, First(indices)))
               words == SplitWords(after)
               starts == {i \in 1..Len(words) :
                            ToLowerCase(words[i]) \notin SkipWords /\ Len(words[i]) > 1}
           IN  IF starts = {} THEN Undefined
               ELSE LET messageStart == First(starts)
                        stops == {i \in messageStart..Len(words) :
                                    ToLowerCase(words[i]) \in StopWords}
                        messageEnd == IF stops = {} THEN Len(words) + 1 ELSE First(stops)
                        extracted ==
                          JoinWords(SubSeq(words, messageStart, messageEnd - 1))
                    IN  IF messageEnd > messageStart /\ ~isFillerPhrase(extracted)
                        THEN extracted ELSE Undefined

extractMessageToSend(message) ==
  LET explicit1 == ExplicitText(KeywordCapture(message, ExplicitIndicators, "explicit"))
      explicit2 == ExplicitText(KeywordCapture(message, SendVerbs, "indicator"))
      sendTo    == SendText(KeywordCapture(message, SendVerbs, "contact"))
      sendToContact == SendText(SendToContactMatch(message))
  IN  IF IsOnlyFiller(message) THEN Undefined
      ELSE IF explicit1 # Undefined THEN explicit1
      ELSE IF explicit2 # Undefined THEN explicit2
      ELSE IF sendTo # Undefined THEN sendTo
      ELSE IF sendToContact # Undefined THEN sendToContact
      ELSE WordsAfterVerb(message)

ReplyVerbs == <<"reply", "respond">>

\* /(?:reply|respond)\s+(.+?)$/i, with \s+(?:with|saying) after the verb when
\* withIndicator: the capture of the leftmost match, which runs to the end
ReplyCapture(message, withIndicator) ==
  LET low == ToLowerCase(message)
      AfterVerb(p) ==
        LET ks == {k \in 1..Len(ReplyVerbs) : StartsWithAt(low, p, ReplyVerbs[k])}
            q  == p + Len(ReplyVerbs[First(ks)])
            us == {SpacedWord(low, q, w) : w \in {"with", "saying"}} \ {0}
        IN  IF ks = {} THEN 0
            ELSE IF ~withIndicator THEN q
            ELSE First(us)
      ps == {p \in 1..Len(low) :
               LET q == AfterVerb(p)
               IN  q # 0 /\ IsSpace(CharAt(low, q)) /\ q + 1 <= Len(low)}
  IN  IF ps = {} THEN NoMatch
      ELSE LET r == SkipSpaces(low, AfterVerb(First(ps)))
           IN  Match(Substring(message, IF r <= Len(low) THEN r ELSE Len(low)))

\* the text a reply pattern yields, undefined when it is empty
ReplyText(m) ==
  LET text == StripQuotes(StripTrailingTo(Trim(m.text)))
  IN  IF m.found /\ m.text # "" /\ Len(text) > 0 THEN text ELSE Undefined

extractReplyMessage(message) ==
  LET withIndicator == ReplyText(ReplyCapture(message, TRUE))
  IN  IF withIndicator # Undefined THEN withIndicator
      ELSE ReplyText(ReplyCapture(message, FALSE))

\* A ParsedCommand; absent strings are undefined, and filters lies flat in
\* hasFilters, unread (true or absent) and contact.
Command(type, action) ==
  [type |-> type, action |-> action, target |-> Undefined, message |-> Undefined,
   hasFilters |-> FALSE, unread |-> FALSE, contact |-> Undefined]

\* parseCommand's null
Null == [type |-> "null"]

\* v when it is truthy, else undefined: a field the code sets under if (v)
IfTruthy(v) == IF Truthy(v) THEN v ELSE Undefined

IsCheck(lowerMessage) ==
  \/ StrIncludes(lowerMessage, "new message")
  \/ StrIncludes(lowerMessage, "any message")
  \/ StrIncludes(lowerMessage, "check message")
  \/ StrIncludes(lowerMessage, "unread")
  \/ StrIncludes(lowerMessage, "new text")
  \/ StrIncludes(lowerMessage, "read message")
  \/ (StrIncludes(lowerMessage, "read") /\ StrIncludes(lowerMessage, "whatsapp"))

IsSend(lowerMessage) ==
  \/ StrIncludes(lowerMessage, "send")
  \/ (StrIncludes(lowerMessage, "text") /\ ~StrIncludes(lowerMessage, "read"))
  \/ StrIncludes(lowerMessage, "message to")
  \/ (StrIncludes(lowerMessage, "send") /\ StrIncludes(lowerMessage, "to"))

IsReply(lowerMessage) ==
  \/ StrIncludes(lowerMessage, "reply")
  \/ StrIncludes(lowerMessage, "respond")
  \/ (StrIncludes(lowerMessage, "reply") /\ StrIncludes(lowerMessage, "with"))

IsRead(lowerMessage) ==
  \/ (StrIncludes(lowerMessage, "read") /\ ~StrIncludes(lowerMessage, "new"))
  \/ StrIncludes(lowerMessage, "show message")
  \/ StrIncludes(lowerMessage, "get message")
  \/ StrIncludes(lowerMessage, "messages from")

\* a read rule that does not ask for a contact
parseWhatsAppCommand_ReadWithoutContact(lowerMessage, originalMessage) ==
  LET command == Command("whatsapp", "unknown")
      contactMatch == extractContactName(originalMessage)
  IN  IF IsCheck(lowerMessage) THEN [command EXCEPT !.action = "check"]
      ELSE IF IsSend(lowerMessage) THEN [command EXCEPT !.action = "send"]
      ELSE IF IsReply(lowerMessage) THEN [command EXCEPT !.action = "reply"]
      ELSE IF IsRead(lowerMessage)
      THEN [command EXCEPT !.action = "read", !.target = contactMatch,
                           !.hasFilters = TRUE, !.contact = contactMatch]
      ELSE command

parseWhatsAppCommand(lowerMessage, originalMessage) ==
  LET command == Command("whatsapp", "unknown")
      contactMatch == extractContactName(originalMessage)
  IN  IF IsCheck(lowerMessage)
      THEN [command EXCEPT !.action = "check", !.hasFilters = TRUE, !.unread = TRUE,
                           !.contact = IfTruthy(contactMatch),
                           !.target = IfTruthy(contactMatch)]
      ELSE IF IsSend(lowerMessage)
      THEN [command EXCEPT !.action = "send", !.target = IfTruthy(contactMatch),
                           !.message = IfTruthy(extractMessageToSend(originalMessage))]
      ELSE IF IsReply(lowerMessage)
      THEN [command EXCEPT !.action = "reply", !.target = IfTruthy(contactMatch),
                           !.message = IfTruthy(extractReplyMessage(originalMessage))]
      ELSE IF IsRead(lowerMessage) /\ Truthy(contactMatch)
      THEN [command EXCEPT !.action = "read", !.target = contactMatch,
                           !.hasFilters = TRUE, !.contact = contactMatch]
      ELSE command

\* a messaging gate that the verb "send" opens as well
IsWhatsApp_OrSend(lowerMessage) ==
  \/ StrIncludes(lowerMessage, "whatsapp")
  \/ StrIncludes(lowerMessage, "message")
  \/ StrIncludes(lowerMessage, "text")
  \/ StrIncludes(lowerMessage, "chat")
  \/ StrIncludes(lowerMessage, "send")

IsWhatsApp(lowerMessage) ==
  \/ StrIncludes(lowerMessage, "whatsapp")
  \/ StrIncludes(lowerMessage, "message")
  \/ StrIncludes(lowerMessage, "text")
  \/ StrIncludes(lowerMessage, "chat")

IsEmail(lowerMessage) ==
  StrIncludes(lowerMessage, "email") \/ StrIncludes(lowerMessage, "mail")

IsCalendar(lowerMessage) ==
  \/ StrIncludes(lowerMessage, "calendar")
  \/ StrIncludes(lowerMessage, "event")
  \/ StrIncludes(lowerMessage, "meeting")

\* a classification that tries email before messaging
parseCommand_EmailFirst(userMessage) ==
  LET lowerMessage == Trim(ToLowerCase(userMessage))
  IN  IF IsEmail(lowerMessage) THEN Command("email", "unknown")
      ELSE IF IsWhatsApp(lowerMessage) THEN parseWhatsAppCommand(lowerMessage, userMessage)
      ELSE IF IsCalendar(lowerMessage) THEN Command("calendar", "unknown")
      ELSE Null

parseCommand(userMessage) ==
  LET lowerMessage == Trim(ToLowerCase(userMessage))
  IN  IF IsWhatsApp(lowerMessage) THEN parseWhatsAppCommand(lowerMessage, userMessage)
      ELSE IF IsEmail(lowerMessage) THEN Command("email", "unknown")
      ELSE IF IsCalendar(lowerMessage) THEN Command("calendar", "unknown")
      ELSE Null

\* ------------------------------------------------- the utterances that are parsed
MaxWords == 2

Names == {"John", "Sarah", "Mike", "Dawar"}

Bodies == {"hello", "Thanks!", "hi there", "ok"}

Vocabulary ==
  {"send", "text", "reply", "read", "check", "new", "unread", "whatsapp", "messages",
   "message", "chat", "email", "meeting", "to", "from", "John", "hello", "weather"}

RECURSIVE WordSeqs(_)
\* the sequences of 1..n words of the vocabulary
WordSeqs(n) ==
  IF n = 0 THEN {}
  ELSE {<<w>> : w \in Vocabulary}
         \cup {Append(ws, w) : ws \in WordSeqs(n - 1), w \in Vocabulary}

\* the forms the documentation gives, with every name and body
DocumentedForms ==
  {"send " \o b \o " to " \o n : b \in Bodies, n \in Names}
    \cup {"reply to " \o n \o " with " \o b : b \in Bodies, n \in Names}
    \cup {"Send a message to " \o n \o " saying " \o b : b \in Bodies, n \in Names}
    \cup {"send a message to " \o n : n \in Names}
    \cup {"send message to " \o n : n \in Names}
    \cup {"read messages from " \o n : n \in Names}
    \cup {"check my whatsapp messages", "read my messages",
          "Do I have new messages?", "what is the weather today"}

\* utterances that several domains or several action rules match
AmbiguousForms ==
  {"send the new text to John", "reply to the new message from John",
   "respond to the text from John with ok", "check email and calendar by text",
   "email about the meeting", "reply and read the chat"}

Utterances ==
  DocumentedForms \cup AmbiguousForms \cup {JoinWords(ws) : ws \in WordSeqs(MaxWords)}

\* POST /api/chat parses the user's message
ParseMessage(userMessage) ==
  /\ parse.pc = "idle"
  /\ parse' = [pc |-> "parsed", text |-> userMessage, command |-> parseCommand(userMessage)]
  /\ UNCHANGED <<isReady, isAuthenticated, adapterVars, listing, route, chat>>

InitParse ==
  /\ AdapterFresh
  /\ listing = NoTask
  /\ route = NoTask
  /\ chat = NoTask
  /\ parse = NoTask
  /\ service = OneService
  /\ ai = IdleAi

NextParse == \E u \in Utterances : ParseMessage(u)

SpecParse == InitParse /\ [][NextParse]_vars

\* the bodies of one word
BodyWords == {b \in Bodies : ~StrIncludes(b, " ")}

\* the command with a target and a message and no filters
TargetedCommand(action, target, message) ==
  [Command("whatsapp", action) EXCEPT !.target = target, !.message = message]

\* C18: for a single alphabetic contact name N and a body word B, parsing
\* "send B to N" returns the messaging command with action send, target N and
\* message B; in particular "send hello to John" gives send, "John", "hello".
C18_SendBodyToName ==
  \A n \in Names : \A b \in BodyWords :
     (parse.pc = "parsed" /\ parse.text = "send " \o b \o " to " \o n) =>
        parse.command = TargetedCommand("send", n, b)

\* C19: parsing "check my whatsapp messages" returns a messaging command with
\* action check and filters.unread true.
C19_CheckMyWhatsAppMessages ==
  (parse.pc = "parsed" /\ parse.text = "check my whatsapp messages") =>
     /\ parse.command # Null
     /\ parse.command.type = "whatsapp"
     /\ parse.command.action = "check"
     /\ parse.command.hasFilters
     /\ parse.command.unread

\* C20: for a single alphabetic name N and a body B, parsing "reply to N with B"
\* returns the messaging command with action reply, target N and message B; in
\* particular "reply to Sarah with Thanks!" gives reply, "Sarah", "Thanks!".
C20_ReplyToNameWithBody ==
  \A n \in Names : \A b \in Bodies :
     (parse.pc = "parsed" /\ parse.text = "reply to " \o n \o " with " \o b) =>
        parse.command = TargetedCommand("reply", n, b)

\* C21: for a single alphabetic name N, parsing "read messages from N" returns
\* the messaging command with action read and target N; in particular
\* "read messages from Mike" gives read, "Mike".
C21_ReadMessagesFromName ==
  \A n \in Names :
     (parse.pc = "parsed" /\ parse.text = "read messages from " \o n) =>
        /\ parse.command # Null
        /\ parse.command.type = "whatsapp"
        /\ parse.command.action = "read"
        /\ parse.command.target = n

\* C22: parsing "send a message to N" returns the messaging command with action
\* send, target N and no message, so that the executor asks for the body.
C22_FillerSendHasNoMessage ==
  \A n \in Names :
     (parse.pc = "parsed" /\ parse.text = "send a message to " \o n) =>
        parse.command = TargetedCommand("send", n, Undefined)

C22_Witness ==
  /\ parse.pc = "parsed"
  /\ parse.text = "send a message to John"
  /\ parse.command.action = "send"
  /\ parse.command.target = "John"
  /\ parse.command.message = Undefined

\* the lower-cased, trimmed text of the parsed utterance
ParsedLower == Trim(ToLowerCase(parse.text))

\* C23: a messaging utterance that matches the read rule and none of the check,
\* send and reply rules, and from which no contact name can be extracted, keeps
\* action unknown and is never read; "read my messages" is such an utterance.
C23_ReadNeedsContact ==
  (/\ parse.pc = "parsed"
   /\ IsWhatsApp(ParsedLower)
   /\ ~IsCheck(ParsedLower) /\ ~IsSend(ParsedLower) /\ ~IsReply(ParsedLower)
   /\ IsRead(ParsedLower)
   /\ ~Truthy(extractContactName(parse.text))) =>
     /\ parse.command # Null
     /\ parse.command.type = "whatsapp"
     /\ parse.command.action = "unknown"

C23_Witness ==
  /\ parse.pc = "parsed"
  /\ parse.text = "read my messages"
  /\ IsRead(ParsedLower)
  /\ parse.command.action = "unknown"

DomainTriggers ==
  {"whatsapp", "message", "text", "chat", "email", "mail", "calendar", "event",
   "meeting"}

C25_FirstMatchWins ==
  parse.pc = "parsed" =>
    LET c == parse.command
        whatsapp == IsWhatsApp(ParsedLower)
        email    == IsEmail(ParsedLower)
        calendar == IsCalendar(ParsedLower)
        check    == IsCheck(ParsedLower)
        send     == IsSend(ParsedLower)
        reply    == IsReply(ParsedLower)
        read     == IsRead(ParsedLower)
    IN  /\ whatsapp => (c # Null /\ c.type = "whatsapp")
        /\ (~whatsapp /\ email) => (c # Null /\ c.type = "email")
        /\ (~whatsapp /\ ~email /\ calendar) => (c # Null /\ c.type = "calendar")
        /\ (whatsapp /\ check) => c.action = "check"
        /\ (whatsapp /\ ~check /\ send) => c.action = "send"
        /\ (whatsapp /\ ~check /\ ~send /\ reply) => c.action = "reply"
        /\ (whatsapp /\ ~check /\ ~send /\ ~reply /\ read) =>
              c.action \in {"read", "unknown"}
        /\ (whatsapp /\ ~check /\ ~send /\ ~reply /\ ~read) => c.action = "unknown"

C25_Witness ==
  /\ parse.pc = "parsed"
  /\ parse.text = "send the new text to John"
  /\ IsCheck(ParsedLower) /\ IsSend(ParsedLower)
  /\ parse.command.action = "check"

\* C26: for a single alphabetic name N and a body B, parsing
\* "Send a message to N saying B" returns action send with target exactly N and
\* message exactly B.
C26_SendSayingForm ==
  \A n \in Names : \A b \in Bodies :
     (parse.pc = "parsed" /\ parse.text = "Send a message to " \o n \o " saying " \o b) =>
        /\ parse.command # Null
        /\ parse.command.action = "send"
        /\ parse.command.target = n
        /\ parse.command.message = b

\* ---------------------------------------------------------- getWhatsAppService
MaxLoads == 2        \* evaluations of the module lib/whatsapp-service (hot reloads)
MaxServices == 2     \* adapters constructed in one process

Environments == {"development", "production"}

\* everything but the accessor's state
serviceFrame == <<ai, flagVars, clientVars, calls, timerVars, histVars, op, listing,
                  route, chat, parse>>

\* an accessor that keeps the adapter in the module-level variable only
UsesGlobal_Never(env) == env \notin Environments

\* process.env.NODE_ENV === 'development'
UsesGlobal(env) == env = "development"

\* getWhatsAppService() called by handler h: the adapter held by the global (in
\* development) or by the module-level variable (otherwise) is returned, and
\* constructed first when there is none
GetService(h) ==
  /\ h \in Handlers
  /\ LET global == UsesGlobal(service.env)
         held == IF global THEN service.global ELSE service.module
         made == held = NoService
         instance == IF made THEN service.built + 1 ELSE held
     IN  /\ made => service.built < MaxServices
         /\ service' = [service EXCEPT
                          !.global = IF global THEN instance ELSE @,
                          !.module = IF global THEN @ ELSE instance,
                          !.built = IF made THEN @ + 1 ELSE @,
                          !.given[h] = instance]
  /\ UNCHANGED serviceFrame

\* a hot reload in development evaluates the module again: its
\* let whatsappService = null runs, the global object is kept
HotReload ==
  /\ service.env = "development"
  /\ service.loads < MaxLoads
  /\ service' = [service EXCEPT !.loads = @ + 1, !.module = NoService]
  /\ UNCHANGED serviceFrame

\* a process that has loaded the module and not yet called the accessor
InitService ==
  /\ AdapterFresh
  /\ listing = NoTask
  /\ route = NoTask
  /\ chat = NoTask
  /\ parse = NoTask
  /\ \E env \in Environments :
        service = ServiceState(env, NoService, NoService, 1, 0,
                               [h \in Handlers |-> NoService])
  /\ ai = IdleAi

NextService == HotReload \/ \E h \in Handlers : GetService(h)

\* One process, its handlers calling the accessor in any order.
SpecService == InitService /\ [][NextService]_vars

\* C28: at most one adapter is ever constructed in a process, and every call of
\* getWhatsAppService(), by whichever handler, returns that same adapter.
C28_OneAdapterPerProcess ==
  /\ [](service.built <= 1)
  /\ [](\A h \in Handlers : service.given[h] \in {NoService, 1})
  /\ [][\A h \in Handlers :
          service'.given[h] # service.given[h] => service'.given[h] = 1]_vars

\* after a hot reload every handler holds the adapter constructed first
C28_Witness ==
  /\ service.env = "development" /\ service.loads = 2
  /\ service.built = 1
  /\ \A h \in Handlers : service.given[h] = 1

\* ------------------------------------------ a check command and its listing
\* handleWhatsAppCommand with a check command, while no listing is under way
CheckCommand(unread) ==
  /\ listing.pc = "idle"
  /\ HandleCommand("check", Undefined, Undefined, unread, TRUE)

\* the adapter operation the handler awaits begins; the parser sets no limit, and
\* the handler's default of 10 takes in every chat
CheckStartsListing ==
  /\ chat.pc = "await"
  /\ chat.awaiting \in {"getUnreadMessages", "getRecentMessages"}
  /\ StartListing(chat.awaiting,
                  IF chat.awaiting = "getRecentMessages" THEN MaxChats ELSE 0)

\* const messages = await service.getUnreadMessages(): the reply is made from
\* messages.length
CheckListingResolves ==
  /\ listing.pc = "returned"
  /\ CommandOpResolves(IF Len(listing.result) = 0 THEN 0 ELSE 1)

\* the listing rejects: the inner and the outer catch block of the handler
CheckListingRejects ==
  /\ listing.pc = "threw"
  /\ CommandOpRejects(listing.err)

InitCheck ==
  /\ AdapterAuthenticated \/ AdapterReady
  /\ listing = IdleListing
  /\ route = NoTask
  /\ chat = IdleChat
  /\ parse = NoTask
  /\ service = OneService
  /\ ai = IdleAi

NextCheck ==
  \/ \E u \in BOOLEAN : CheckCommand(u)
  \/ CheckStartsListing
  \/ \E m \in OpErrors : GetChatsRejects(m)
  \/ GetChatsResolves
  \/ UnreadSkipsReadChat
  \/ \E c \in 1..MaxMsgs : \E ms \in FetchResults(listing.seen + 1, c) :
       UnreadFetchResolves(c, ms)
  \/ \E m \in OpErrors : UnreadFetchRejects(m)
  \/ UnreadReturns
  \/ RecentSkipsChat
  \/ \E ms \in FetchResults(listing.seen + 1, 1) : RecentFetchResolves(ms)
  \/ \E m \in OpErrors : RecentFetchRejects(m)
  \/ RecentReturns
  \/ CheckListingResolves
  \/ CheckListingRejects

\* The command executor serving one check command, with the adapter's listing
\* it awaits.
SpecCheck == InitCheck /\ [][NextCheck]_vars

\* C29: when the fetch of every chat that has unread messages failed with the
\* contact error, the reply to the check command is the one that says some
\* chats cannot be read while send and reply still work.
C29_AllUnreadableIsExplained ==
  (/\ chat.pc = "replied" /\ chat.action = "check"
   /\ listing.kind = "getUnreadMessages" /\ listing.pc = "returned"
   /\ listing.unreadable > 0
   /\ listing.unreadable = listing.failed /\ listing.fetched = 0) =>
     chat.reply = "troubleReading"

\* ------------------------------------------------- POST /api/whatsapp/connect
\* src/app/api/whatsapp/connect/route.ts, the local path (no
\* WHATSAPP_SERVICE_URL).  route holds the request: where the handler is, and
\* the status, ready and qrCode of the response it sent.
ConnectResponse(status, ready, qr) ==
  [pc |-> "responded", kind |-> "connect", status |-> status, ready |-> ready,
   qrCode |-> qr]

\* the handler up to `await service.initialize()`: isConnected() for the log
\* line, then initialize() to its first await
PostConnect ==
  /\ route.pc \in {"idle", "responded"}
  /\ BeginInitialize(1)
  /\ isAuthenticated' = AuthAfterIsConnected
  /\ quietLogout' = FALSE
  /\ route' = [pc |-> "initialize", kind |-> "connect"]
  /\ UNCHANGED <<isReady, qrCode, client, pupPage, info, timerVars, sessionUp,
                 unmatched, op, listing, chat, parse, service, ai>>

\* initialize() settles: an error is answered with 503, a result with a QR code
\* or ready true is answered at once, a result with neither starts the 2 s wait
ConnectSettles ==
  /\ route.pc = "initialize"
  /\ calls[1].pc \in {"returned", "threw"}
  /\ calls' = [calls EXCEPT ![1] = IdleCall]
  /\ route' = IF calls[1].pc = "threw"
              THEN ConnectResponse(503, FALSE, NoQr)
              ELSE IF calls[1].qr = NoQr /\ ~calls[1].ready
              THEN [pc |-> "wait", kind |-> "connect"]
              ELSE ConnectResponse(200, calls[1].ready, calls[1].qr)
  /\ UNCHANGED <<flagVars, clientVars, timerVars, histVars, op, listing, chat,
                 parse, service, ai>>

\* after the 2 s wait: getQRCode() and isConnected() are read again; with
\* neither, the result of initialize() (not ready, no QR code) is answered
ConnectRechecks ==
  /\ route.pc = "wait"
  /\ isAuthenticated' = AuthAfterIsConnected
  /\ route' = IF qrCode # NoQr \/ IsConnected
              THEN ConnectResponse(200, IsConnected, qrCode)
              ELSE ConnectResponse(200, FALSE, NoQr)
  /\ UNCHANGED <<isReady, qrCode, clientVars, calls, timerVars, histVars, op,
                 listing, chat, parse, service, ai>>

\* a timer's initialize() invocation is taken by the timer, the request's by
\* the request
TimerCallStep ==
  /\ route.pc = "initialize" => calls[1].pc \notin {"returned", "threw"}
  /\ CallStep(1)

NextConnect ==
  \/ Event
  \/ PostConnect
  \/ ConnectSettles
  \/ ConnectRechecks
  \/ AutoInitTimer(1)
  \/ ReconnectTimer(1)
  \/ PageLaunched
  \/ TimerCallStep

SpecConnect == Init /\ [][NextConnect]_vars

\* C30: a successful connect response never reports ready true together with a
\* QR code: it is ready without a QR code, a QR code and not ready, or neither.
C30_ConnectResponseOutcomes ==
  (route.pc = "responded" /\ route.status = 200) =>
    ~(route.ready /\ route.qrCode # NoQr)

\* ------------------------------------------------------------- disconnect()
\* disconnect(): client.destroy() (errors ignored), then this.client = null and
\* the flags and the QR code are reset.  Called while no initialize()
\* invocation is waiting for client.initialize() or recreating the client.  The
\* page and the info were properties of the client object that is dropped.
Disconnect ==
  /\ client # NoClient
  /\ \A p \in Slots : calls[p].pc \notin {"awaitInit", "destroying", "awaitReinit"}
  /\ client' = NoClient
  /\ isReady' = FALSE
  /\ isAuthenticated' = FALSE
  /\ qrCode' = NoQr
  /\ pupPage' = FALSE
  /\ info' = FALSE
  /\ initCalls' = 0
  /\ sessionUp' = FALSE
  /\ quietLogout' = FALSE
  /\ UNCHANGED <<calls, timerVars, unmatched, op>>
  /\ UNCHANGED taskVars

\* The adapter with its connect requests, its timers and disconnect().
NextDisconnect ==
  \/ Event
  \/ ConnectRequest(1)
  \/ AutoInitTimer(1)
  \/ ReconnectTimer(1)
  \/ PageLaunched
  \/ CallStep(1)
  \/ Disconnect

SpecDisconnect == Init /\ [][NextDisconnect]_vars

\* the adapter has no client and no initialize() invocation is about to make
\* one: initialize() throws 'WhatsApp client not initialized' at its first line
Terminal ==
  /\ client = NoClient
  /\ \A p \in Slots : calls[p].pc \notin {"awaitInit", "destroying", "awaitReinit"}

\* no step of the adapter, connect requests included, leaves a terminal state,
\* and the adapter is not ready in one
TerminalIsAbsorbing ==
  /\ [](Terminal => ~isReady)
  /\ [][Terminal => Terminal']_vars
  /\ [][Terminal /\ ConnectRequest(1) => calls'[1].pc = "threw"]_vars

\* C27: the adapter has no terminal state: from every reachable state a connect
\* call can still start the client and lead back to ready.
C27_NoTerminalState == ~Terminal

\* ------------------------------------------------ external service configured
\* C31: with WHATSAPP_SERVICE_URL configured, a send request is served by the
\* external service alone: the handler neither consults the local adapter's
\* isConnected() nor calls its sendMessage or replyToMessage, whatever the
\* external service answers.
C31_ExternalServiceOnly ==
  route.url =>
    /\ route.called = "none"
    /\ route.pc # "adapter"
    /\ route.error \notin {MsgRouteNotConnected, MsgTargetRequired}

\* ------------------------------------------------------------ getAIResponse
\* src/app/api/chat/route.ts: getAIResponse tries Groq and Gemini when their
\* keys are set, then Hugging Face, then the pattern-based fallback.
MaxRequests == 3     \* Hugging Face requests of one invocation that are followed

DefaultWait == 10    \* seconds waited when the answer has no estimated-time header

\* what a Groq or Gemini call can come to
ProviderOutcomes == {"ok", "RATE_LIMIT", "API error: 500", "fetch failed"}

\* estimated-time headers of a 503 answer: absent, or a number of seconds
EstimatedTimes == {0, 20}

\* status codes of the Hugging Face endpoint
HFStatuses == {200, 500, 503}

aiFrame == <<flagVars, clientVars, calls, timerVars, histVars, op, listing,
             route, chat, parse, service>>

\* getAIResponseHF up to its await of fetch: one request is issued
IssueHF(a) == [a EXCEPT !.pc = "hf", !.requests = @ + 1]

\* the answer is returned by getAIResponse
AiReturns(a, source) == [a EXCEPT !.pc = "done", !.source = source]

\* getAIResponseHF throws: errors.push(`HF: ...`), then getSimpleResponse
HFThrows(a, msg) ==
  AiReturns([a EXCEPT !.errors = Append(@, "HF: " \o msg)], "simple")

\* after Groq: Gemini when its key is set, Hugging Face otherwise
AfterGroq(a) == IF a.geminiKey THEN [a EXCEPT !.pc = "gemini"] ELSE IssueHF(a)

\* getAIResponse(message) up to its first await
GetAIResponse(groqKey, geminiKey) ==
  /\ ai.pc \in {"idle", "done"}
  /\ LET a == [IdleAi EXCEPT !.groqKey = groqKey, !.geminiKey = geminiKey]
     IN  ai' = IF groqKey THEN [a EXCEPT !.pc = "groq"] ELSE AfterGroq(a)
  /\ UNCHANGED aiFrame

\* getAIResponseGroq settles
GroqSettles(outcome) ==
  /\ ai.pc = "groq"
  /\ outcome \in ProviderOutcomes
  /\ ai' = IF outcome = "ok" THEN AiReturns(ai, "groq")
           ELSE AfterGroq([ai EXCEPT !.errors = Append(@, "Groq: " \o outcome)])
  /\ UNCHANGED aiFrame

\* getAIResponseGemini settles
GeminiSettles(outcome) ==
  /\ ai.pc = "gemini"
  /\ outcome \in ProviderOutcomes
  /\ ai' = IF outcome = "ok" THEN AiReturns(ai, "gemini")
           ELSE IssueHF([ai EXCEPT !.errors = Append(@, "Gemini: " \o outcome)])
  /\ UNCHANGED aiFrame

\* the Hugging Face endpoint answers: 503 starts the wait, any other status
\* that is not ok throws, an ok answer is returned if it has generated text
HFAnswer(a, status, wellFormed, estimated) ==
  IF status = 503
  THEN [a EXCEPT !.pc = "hfWait",
                 !.waitTime = IF estimated = 0 THEN DefaultWait ELSE estimated]
  ELSE IF status # 200 THEN HFThrows(a, "HF API error: 500")
  ELSE IF wellFormed THEN AiReturns(a, "hf")
  ELSE HFThrows(a, "Unexpected HF response format")

HFAnswers(status, wellFormed, estimated) ==
  /\ ai.pc = "hf"
  /\ status \in HFStatuses /\ estimated \in EstimatedTimes
  /\ ai' = HFAnswer(ai, status, wellFormed, estimated)
  /\ UNCHANGED aiFrame

\* the fetch itself throws
HFFetchThrows ==
  /\ ai.pc = "hf"
  /\ ai' = HFThrows(ai, "fetch failed")
  /\ UNCHANGED aiFrame

\* the wait is over: return getAIResponseHF(message), which issues a request
HFRetries ==
  /\ ai.pc = "hfWait"
  /\ ai.requests < MaxRequests
  /\ ai' = IssueHF([ai EXCEPT !.waited = @ + ai.waitTime, !.waitTime = 0])
  /\ UNCHANGED aiFrame

InitAi ==
  /\ AdapterFresh
  /\ listing = NoTask
  /\ route = NoTask
  /\ chat = NoTask
  /\ parse = NoTask
  /\ service = OneService
  /\ ai = IdleAi

NextAi ==
  \/ \E g, m \in BOOLEAN : GetAIResponse(g, m)
  \/ \E o \in ProviderOutcomes : GroqSettles(o)
  \/ \E o \in ProviderOutcomes : GeminiSettles(o)
  \/ \E st \in HFStatuses, w \in BOOLEAN, e \in EstimatedTimes : HFAnswers(st, w, e)
  \/ HFFetchThrows
  \/ HFRetries

\* One chat message after another answered through the provider chain.
SpecAi == InitAi /\ [][NextAi]_vars

\* C32: an invocation of getAIResponseHF issues at most two requests, also
\* when the endpoint keeps answering 503.
C32_RetriesOnce == ai.requests <= 2

\* --------------------------------------------------- guards and isConnected()
\* C33: a message operation is rejected with the not-connected error only when
\* isConnected() is false; while it is true all five operations pass their
\* guard.
C33_ConnectedPassesGuard ==
  (op.st = "rejected" /\ Includes(op.err, "not connected")) => ~op.conn

\* ------------------------------------------------- initialize() and the QR code
\* C34: no step of initialize() erases a stored QR code: a code that the qr
\* handler stored while client.initialize() was in progress is still stored
\* when the polling begins.
C34_InitializeKeepsQr ==
  [][((\/ ConnectRequest(1) \/ QrRequest(1) \/ AutoInitTimer(1)
       \/ ReconnectTimer(1) \/ CallStep(1))
      /\ qrCode # NoQr) => qrCode' = qrCode]_vars

\* C35: a QR code returned by an invocation that recreated the client was
\* emitted by the client it created, never by the destroyed one.
C35_RecreatedQrIsFresh ==
  \A p \in Slots :
    (calls[p].pc = "returned" /\ calls[p].recr > 0 /\ calls[p].qr # NoQr) =>
      calls[p].qr = client

\* ------------------------------------------------------- message and target
\* C36: a send command never carries its own target as its message: when the
\* contact name is the only content word, the message is undefined.
C36_MessageIsNotTheTarget ==
  (/\ parse.pc = "parsed"
   /\ parse.command.type = "whatsapp"
   /\ parse.command.action = "send"
   /\ parse.command.target # Undefined) =>
     parse.command.message # parse.command.target

\* ------------------------------------------- a check command with a contact
\* the chat of the contact a command names (the chat getMessagesFromContact
\* finds and fetches)
ContactChat == 1

\* a check command as the parser builds it for an utterance that names a
\* contact: filters { unread: true, contact }, target = contact
CheckContactCommand(target) ==
  /\ listing.pc = "idle"
  /\ Truthy(target)
  /\ HandleCommand("check", target, Undefined, TRUE, TRUE)

NextCheckContact ==
  \/ \E t \in CommandTargets : CheckContactCommand(t)
  \/ NextCheck

\* The command executor serving one check command, with or without a contact.
SpecCheckContact == InitCheck /\ [][NextCheckContact]_vars

\* C37: the messages reported for a check command that names a contact all
\* come from that contact's chat.
C37_ContactNarrowsCheck ==
  (/\ chat.pc = "replied" /\ chat.action = "check" /\ Truthy(chat.target)
   /\ chat.reply = "messageList" /\ listing.pc = "returned") =>
     \A m \in Range(Slice(listing.result, 5)) : m.chat = ContactChat

\* -------------------------------------------------------------- resetClient()
\* resetClient(): client.destroy() if there is a client (errors ignored), the
\* flags and the QR code are reset, a new client is constructed and the event
\* handlers are attached to it.  After disconnect() nothing refers to an
\* earlier client object, and the numbering starts again.
ResetClient ==
  /\ client < MaxClients
  /\ client' = client + 1
  /\ isReady' = FALSE
  /\ isAuthenticated' = FALSE
  /\ qrCode' = NoQr
  /\ pupPage' = FALSE
  /\ info' = FALSE
  /\ initCalls' = 0
  /\ sessionUp' = FALSE
  /\ quietLogout' = FALSE
  /\ UNCHANGED <<calls, timerVars, unmatched, op>>
  /\ UNCHANGED taskVars

\* The adapter with every caller, resetClient() and disconnect().
NextLifecycle ==
  \/ Next
  \/ ResetClient
  \/ Disconnect

SpecLifecycle == Init /\ [][NextLifecycle]_vars

\* C38: the ready flag implies the authenticated flag in every reachable state
\* of the adapter, whatever events, failed message operations, resets and
\* disconnects led to it.
C38_ReadyImpliesAuthenticated == isReady => isAuthenticated

\* ready again on the client that resetClient() constructed after a session
\* was up on the first one
C38_Witness ==
  /\ isReady /\ isAuthenticated
  /\ client = 2 /\ initCalls = 1
  /\ \A p \in Slots : calls[p].recr = 0 /\ calls[p].pc \in {"idle", "poll"}

\* --------------------------------------------------- stale reconnect timers
\* C39: a reconnect timer calls initialize() exactly when the adapter is not
\* ready and holds a client; one that fires after the adapter became ready
\* again, or after disconnect() released the client, changes nothing but the
\* count of pending timers.
C39_StaleReconnectDoesNothing ==
  [][ReconnectTimer(1) =>
       IF ~isReady /\ client # NoClient
       THEN calls'[1].pc # "idle"
       ELSE UNCHANGED <<calls, flagVars, clientVars, autoPending, histVars>>]_vars

\* a reconnect timer is pending on an adapter whose client disconnect() released
C39_Witness ==
  /\ client = NoClient /\ reconnectTimers > 0
  /\ \A p \in Slots : calls[p].pc = "idle"

\* a reconnect timer is pending on an adapter that is ready again
C39_WitnessReady ==
  /\ isReady /\ client # NoClient /\ reconnectTimers > 0
  /\ \A p \in Slots : calls[p].pc = "idle"
====
